---- MODULE Spec2Model ----
(***************************************************************************)
(* Model of the recursive object-inspection engine of the                  *)
(* inventree-part-templates plugin (templatetags/inspect.py).              *)
(*                                                                         *)
(* An inspection is the construction InspectionManager(name, obj,          *)
(* max_depth, max_items).  The Python call stack of the nested             *)
(* constructors is the variable `stack`; every constructor that is         *)
(* running owns one frame.  The object graph under inspection is `heap`:   *)
(* a function from Python identities (id(obj)) to objects.                 *)
(*                                                                         *)
(* The second part models the plugin (part_templates_plugin.py): the       *)
(* metadata of the parts and categories of the database, the web request   *)
(* that stores a template override in it, and the readers that resolve a   *)
(* template for a part.                                                    *)
(***************************************************************************)
EXTENDS Integers, Sequences, FiniteSets, TLC

VARIABLES
    heap,       \* the inspected object graph: id -> [type, str, items]
    maxDepth,   \* argument max_depth of InspectionManager.__init__
    maxItems,   \* InspectionManager._max_items
    processed,  \* InspectionManager._processed (the set of its keys)
    nodes,      \* the InspectBase objects created so far, in creation order
    stack,      \* the constructors that are running, innermost last
    pc,         \* "new" | "running" | "done" | "error" (Depth exceeded) | "raised" (a getter's exception)
    prev,       \* <<>>, or the one finished inspection made before on the same heap
    context,    \* None, or what _build_context returned or raised for the finished tree
    metadata,   \* the database: instance.metadata of every part and category
    stored,     \* the template last sent for (instance, key) in a request that was answered
    writes,     \* number of set_template requests received
    pending,    \* the set_template requests that hold a fetched instance not yet saved
    past,       \* the databases there have been before the present one, oldest first
    reply       \* what the last call of the plugin returned or raised

insp == <<heap, maxDepth, maxItems, processed, nodes, stack, pc, prev, context>>
web == <<metadata, stored, writes, pending, past, reply>>
vars == <<heap, maxDepth, maxItems, processed, nodes, stack, pc, prev, context,
          metadata, stored, writes, pending, past, reply>>

(***************************************************************************)
(* Bounds of the model.                                                    *)
(***************************************************************************)
MaxRefs == 2        \* references held, in all, by the containers of a generated object graph
MaxDepth == 3       \* largest max_depth argument
MaxItems == 2       \* largest max_items argument
MaxWrites == 2      \* set_template requests received in one run of the plugin

(***************************************************************************)
(* Python values.                                                          *)
(***************************************************************************)
NoneId == 0         \* id(None)

\* an optional result: Python's None, or a value
None == [some |-> FALSE]
Some(v) == [some |-> TRUE, val |-> v]

\* the outcome of a call: the value returned, or the exception raised
Ok(v) == [ok |-> TRUE, val |-> v]
Exc(e) == [ok |-> FALSE, exc |-> e]

ValueOnly == {"InspectSimpleType", "InspectMethod", "InspectPartial", "InspectDuplicate"}
Containers == {"InspectDict", "InspectList", "InspectQuerySet", "InspectClass"}

\* InspectionManager.WHITELIST_USE_SIMPLE_TYPE, by the names of the classes
WHITELIST_USE_SIMPLE_TYPE ==
    {"str", "int", "float", "bool", "Decimal", "Money", "complex", "Pattern", "Match", "date"}

\* type(ob).__mro__ without object, by name: the class of the value, then
\* the classes it derives from (the field bases, which a value of a class
\* that derives from object alone does not carry)
Mro(ob) == IF "bases" \in DOMAIN ob THEN <<ob.type>> \o ob.bases ELSE <<ob.type>>

\* isinstance(ob, classes)
InstanceOf(ob, classes) == \E i \in 1..Len(Mro(ob)) : Mro(ob)[i] \in classes

\* isinstance(obj, WHITELIST_USE_SIMPLE_TYPE) or obj is None
IsSimple(h, o) == o = NoneId \/ InstanceOf(h[o], WHITELIST_USE_SIMPLE_TYPE)

(***************************************************************************)
(* The object graphs the inspections are run on.                           *)
(***************************************************************************)
KeyNames == <<"a", "b", "c", "d">>
IntObj(s) == [type |-> "int", str |-> s, items |-> <<>>]
NoneObj == [type |-> "NoneType", str |-> "None", items |-> <<>>]
StrObj(s) == [type |-> "str", str |-> s, items |-> <<>>]

\* an entry of a container: the key or attribute name, the value held, and,
\* for an attribute, what inspect.classify_class_attrs(type(obj)) tells of it:
\* the class that defines it ("class": type(obj) itself, "base": a base
\* class, "instance": none, the name is set on the object only) and its kind
Entry(n, r) ==
    [name |-> n, ref |-> r, tag |-> "plain", ktype |-> "str", defined |-> "class", kind |-> "data"]

\* an entry of a dict whose key is no string: name is str(key), ktype the
\* name of the type of the key
KeyEntry(t, n, r) == [Entry(n, r) EXCEPT !.ktype = t]

\* an attribute of an object: tag tells what getattr(obj, name, None) does or
\* yields: "plain" (the value ref), "builtin" (a built-in callable), "type" (a
\* class), "do_not_call_in_templates" (a value flagged so), "missing" (the
\* getter raises AttributeError, so the default None is the value), "raises"
\* (the getter raises any other exception).  The attribute is one the class
\* of the object defines: a property when its getter raises, a static method
\* when it is a built-in function (count = len), data otherwise
Attr(n, r, t) ==
    [name |-> n, ref |-> r, tag |-> t, ktype |-> "str", defined |-> "class",
     kind |-> IF t \in {"missing", "raises"} THEN "property"
              ELSE IF t = "builtin" THEN "static method" ELSE "data"]

\* a method descriptor of a built-in class (tuple.count): getattr yields a
\* built-in callable, and its kind is method
SlotAttr(n) == [Attr(n, NoneId, "builtin") EXCEPT !.kind = "method"]

\* a method the class of the object defines (ref: the bound method)
MethodAttr(n, r) == [Attr(n, r, "plain") EXCEPT !.kind = "method"]

\* an attribute a base class of the class of the object defines
BaseAttr(n, r) == [Attr(n, r, "plain") EXCEPT !.defined = "base"]

\* an attribute set on the object itself, which no class defines
InstAttr(n, r) == [Attr(n, r, "plain") EXCEPT !.defined = "instance"]
Obj(t, its) == [type |-> t, str |-> "", items |-> its]

\* an instance of class t, which derives from the classes bases (the rest of
\* its __mro__, object left out), with the content of ob
Derived(t, bases, ob) == [bases |-> bases] @@ [ob EXCEPT !.type = t]

\* A generated object graph has two containers, each of any container type,
\* and one scalar; its containers hold at most MaxRefs references in all, to
\* each other, to themselves or to the scalar.  Graphs that need more objects
\* are the explicit ones below.
ObjectIds == {1, 2}
ScalarIds == {11}
Targets == ObjectIds \cup ScalarIds
RefSeqs == UNION {[1..n -> Targets] : n \in 0..MaxRefs}
RefMaps == {rf \in [ObjectIds -> RefSeqs] : Len(rf[1]) + Len(rf[2]) <= MaxRefs}
ContainerTypes == {"dict", "list", "QuerySet", "object"}

GenHeap(ty, rf) ==
    [o \in Targets |->
        IF o \in ScalarIds THEN IntObj("7")
        ELSE Obj(ty[o], [i \in 1..Len(rf[o]) |-> Entry(KeyNames[i], rf[o][i])])]

\* {"a": 1, "b": {"c": 2, "d": 3}}
ExampleHeap ==
    (1 :> Obj("dict", <<Entry("a", 11), Entry("b", 2)>>)) @@
    (2 :> Obj("dict", <<Entry("c", 12), Entry("d", 13)>>)) @@
    (11 :> IntObj("1")) @@ (12 :> IntObj("2")) @@ (13 :> IntObj("3"))

\* r = {"a": a, "b": x}; a = {"r": r}; x = {"k": 1}
SharedHeap ==
    (1 :> Obj("dict", <<Entry("a", 2), Entry("b", 3)>>)) @@
    (2 :> Obj("dict", <<Entry("r", 1)>>)) @@
    (3 :> Obj("dict", <<Entry("k", 11)>>)) @@
    (11 :> IntObj("1"))

\* x = {}; x["self"] = x
SelfHeap == (1 :> Obj("dict", <<Entry("self", 1)>>))

\* a lone scalar, and a list holding None and itself
ScalarHeap == (1 :> IntObj("5"))
NoneHeap == (1 :> Obj("list", <<Entry("", NoneId), Entry("", 1)>>)) @@ (NoneId :> NoneObj)

\* an object whose attributes, in the order of dir(), carry names with and
\* without "password"; one of them is a dict with such a key
PasswordHeap ==
    (1 :> Obj("object", <<Attr("Password", 11, "plain"), Attr("db_PASSWORD_1", 12, "plain"),
                          Attr("pass", 13, "plain"), Attr("password", 14, "plain"),
                          Attr("password_box", 2, "plain"), Attr("password_hint", 17, "plain"),
                          Attr("user", 15, "plain")>>)) @@
    (2 :> Obj("dict", <<Entry("PASSWORD", 16)>>)) @@
    (11 :> StrObj("Secret1")) @@ (12 :> IntObj("1234")) @@ (13 :> StrObj("word")) @@
    (14 :> StrObj("")) @@ (15 :> StrObj("bob")) @@ (16 :> StrObj("pin9")) @@
    (17 :> StrObj("a*c"))

\* an object with attributes of every kind the Composite constructor tells
\* apart, all of them defined by its class: Meta a nested class, count the
\* built-in len, flagged an object of class Flagged, which sets
\* do_not_call_in_templates = True
AttrHeap ==
    (1 :> Obj("object", <<Attr("Meta", 4, "type"), Attr("_secret", 11, "plain"),
                          Attr("count", NoneId, "builtin"),
                          Attr("flagged", 5, "do_not_call_in_templates"),
                          Attr("gone", NoneId, "missing"), Attr("name", 11, "plain"), Attr("owner", 2, "plain"),
                          Attr("parts", 3, "plain"), Attr("size", 12, "plain"),
                          Attr("tags", 3, "plain")>>)) @@
    (2 :> Obj("object", <<Attr("__dict__", 11, "plain"), Attr("boss", 1, "plain")>>)) @@
    (3 :> Obj("list", <<Entry("", 11), Entry("", 12)>>)) @@
    (4 :> Obj("type", <<SlotAttr("mro")>>)) @@
    (5 :> Obj("Flagged", <<Attr("do_not_call_in_templates", 13, "plain")>>)) @@
    (11 :> StrObj("bolt")) @@ (12 :> IntObj("4")) @@
    (13 :> [type |-> "bool", str |-> "True", items |-> <<>>]) @@ (NoneId :> NoneObj)

\* an object with a getter that raises, between attributes that can be read
RaisingHeap ==
    (1 :> Obj("object", <<Attr("alpha", 11, "plain"), Attr("broken", NoneId, "raises"),
                          Attr("zeta", 12, "plain")>>)) @@
    (11 :> IntObj("1")) @@ (12 :> IntObj("2"))

\* the same, below the root, and with a getter that raises AttributeError
NestedRaisingHeap ==
    (1 :> Obj("object", <<Attr("gone", NoneId, "missing"), Attr("inner", 2, "plain"),
                          Attr("zeta", 12, "plain")>>)) @@
    (2 :> Obj("object", <<Attr("_hidden", NoneId, "raises"), Attr("broken", NoneId, "raises"),
                          Attr("omega", 11, "plain")>>)) @@
    (11 :> IntObj("1")) @@ (12 :> IntObj("2")) @@ (NoneId :> NoneObj)

\* a chain of objects of class N (class N: child = None) that ends in a
\* dict: a.child = b; b.child = c; c.child = {"k": "x<y", "a": a}
ChainHeap ==
    (1 :> Obj("object", <<Attr("child", 2, "plain")>>)) @@
    (2 :> Obj("object", <<Attr("child", 3, "plain")>>)) @@
    (3 :> Obj("object", <<Attr("child", 4, "plain")>>)) @@
    (4 :> Obj("dict", <<Entry("k", 11), Entry("a", 1)>>)) @@
    (11 :> StrObj("x<y"))

\* a bound method (str: the names of its parameters, joined; sig: None when
\* inspect.signature finds no signature for it)
MethodObj(s) == [type |-> "method", str |-> s, items |-> <<>>, sig |-> Some(s)]

\* types.MethodType(int, obj): a bound method of a built-in class, for which
\* inspect.signature raises ValueError
UnsignedMethodObj == [MethodObj("") EXCEPT !.sig = None]

\* a function (str: its __name__; sig: the parameter names of its
\* inspect.signature, None when it has no signature), which as an object has
\* no public attribute that is no method
FuncObj(name, sig) == [type |-> "function", str |-> name, items |-> <<>>, sig |-> sig]

\* a tuple: its elements, next to the attributes of the class tuple
TupleObj(elements) ==
    [type |-> "tuple", str |-> "", items |-> <<SlotAttr("count"), SlotAttr("index")>>,
     elements |-> elements]

\* a functools.partial: its attributes args (a tuple), func and keywords (a
\* dict), which the class partial defines, each the identity of the object held
PartialObj(func, args, keywords) ==
    Obj("partial", <<Attr("args", args, "plain"), Attr("func", func, "plain"),
                     Attr("keywords", keywords, "plain")>>)

\* the attributes of ob as an instance of a class that derives from the
\* class of ob has them: a base class defines them
Inherited(ob) ==
    [ob EXCEPT !.items = [i \in 1..Len(ob.items) |-> [ob.items[i] EXCEPT !.defined = "base"]]]

\* class W: def area(self, width, height); w = W(); w.empty = [];
\* w.opts = {"k": 1}; w.opts["again"] = w.opts;
\* w.scaled = partial(scale, 3, unit={}) for def scale(value, factor, unit='mm')
CallableHeap ==
    (1 :> Obj("object", <<MethodAttr("area", 21), InstAttr("empty", 3),
                          InstAttr("opts", 2), InstAttr("scaled", 22)>>)) @@
    (2 :> Obj("dict", <<Entry("k", 11), Entry("again", 2)>>)) @@
    (3 :> Obj("list", <<>>)) @@
    (11 :> IntObj("1")) @@ (12 :> IntObj("3")) @@
    (21 :> MethodObj("width, height")) @@
    (22 :> PartialObj(31, 32, 33)) @@
    (31 :> FuncObj("scale", Some(<<"value", "factor", "unit">>))) @@
    (32 :> TupleObj(<<Entry("", 12)>>)) @@
    (33 :> Obj("dict", <<Entry("unit", 34)>>)) @@
    (34 :> Obj("dict", <<>>))

\* for def scale(value, factor, unit='mm') and def total(first, *rest, **opts):
\* class Q: pass; q = Q(); q.both = partial(scale, factor=2.5, unit='mm');
\* q.bare = partial(scale); q.more = partial(total, 1, 2, 3, z=4);
\* q.none = partial(scale, None, 2, extra=1).  The empty tuple is one object
PartialHeap ==
    (1 :> Obj("Q", <<InstAttr("bare", 22), InstAttr("both", 21),
                     InstAttr("more", 23), InstAttr("none", 24)>>)) @@
    (21 :> PartialObj(31, 41, 61)) @@ (22 :> PartialObj(31, 41, 62)) @@
    (23 :> PartialObj(32, 42, 63)) @@ (24 :> PartialObj(31, 43, 64)) @@
    (31 :> FuncObj("scale", Some(<<"value", "factor", "unit">>))) @@
    (32 :> FuncObj("total", Some(<<"first", "rest", "opts">>))) @@
    (41 :> TupleObj(<<>>)) @@
    (42 :> TupleObj(<<Entry("", 51), Entry("", 52), Entry("", 53)>>)) @@
    (43 :> TupleObj(<<Entry("", NoneId), Entry("", 52)>>)) @@
    (51 :> IntObj("1")) @@ (52 :> IntObj("2")) @@ (53 :> IntObj("3")) @@
    (54 :> [type |-> "float", str |-> "2.5", items |-> <<>>]) @@
    (55 :> StrObj("mm")) @@ (56 :> IntObj("4")) @@
    (61 :> Obj("dict", <<Entry("factor", 54), Entry("unit", 55)>>)) @@
    (62 :> Obj("dict", <<>>)) @@
    (63 :> Obj("dict", <<Entry("z", 56)>>)) @@
    (64 :> Obj("dict", <<Entry("extra", 51)>>)) @@
    (NoneId :> NoneObj)

\* the class int, as the func of a partial: inspect.signature(int) raises
\* ValueError (no signature found for builtin type)
IntClass == [FuncObj("int", None) EXCEPT !.type = "type"]

\* partial(int, '5'), alone and as the value of a dict
BuiltinPartialHeap ==
    (1 :> PartialObj(2, 3, 4)) @@
    (2 :> IntClass) @@ (3 :> TupleObj(<<Entry("", 11)>>)) @@ (4 :> Obj("dict", <<>>)) @@
    (11 :> StrObj("5"))
BuiltinPartialDictHeap ==
    (1 :> Obj("dict", <<Entry("a", 11), Entry("conv", 2), Entry("z", 11)>>)) @@
    (2 :> PartialObj(3, 4, 5)) @@
    (3 :> IntClass) @@ (4 :> TupleObj(<<Entry("", 12)>>)) @@ (5 :> Obj("dict", <<>>)) @@
    (11 :> IntObj("1")) @@ (12 :> StrObj("5"))

\* class H: pass; h = H(); h.conv = types.MethodType(int, h)
BuiltinMethodHeap ==
    (1 :> Obj("H", <<InstAttr("conv", 21)>>)) @@ (21 :> UnsignedMethodObj)

\* for def scale(value, factor, unit='mm'):
\* class T: conv = partial(scale, 3, unit={})
PartialAttrHeap ==
    (1 :> Obj("T", <<Attr("conv", 2, "plain")>>)) @@
    (2 :> PartialObj(3, 4, 5)) @@
    (3 :> FuncObj("scale", Some(<<"value", "factor", "unit">>))) @@
    (4 :> TupleObj(<<Entry("", 11)>>)) @@
    (5 :> Obj("dict", <<Entry("unit", 6)>>)) @@
    (6 :> Obj("dict", <<>>)) @@
    (11 :> IntObj("3"))

\* [re.compile('a+'), None, True, E(), (1, 2), decimal.Decimal('1.5')] for
\* class E: pass.  The tuple holds its elements next to the attributes of
\* the class tuple
ShapeHeap ==
    (1 :> Obj("list", <<Entry("", 11), Entry("", NoneId), Entry("", 12), Entry("", 2),
                        Entry("", 3), Entry("", 13)>>)) @@
    (2 :> Obj("E", <<Attr("__class__", NoneId, "type"), Attr("__dict__", NoneId, "plain")>>)) @@
    (3 :> TupleObj(<<Entry("", 14), Entry("", 15)>>)) @@
    (11 :> [type |-> "Pattern", str |-> "re.compile('a+')", items |-> <<>>]) @@
    (12 :> [type |-> "bool", str |-> "True", items |-> <<>>]) @@
    (13 :> [type |-> "Decimal", str |-> "1.5", items |-> <<>>]) @@
    (14 :> IntObj("1")) @@ (15 :> IntObj("2")) @@
    (NoneId :> NoneObj)

\* class B: alpha = 1; class K(B): zeta = 2; count = len;
\* def area(self, width); k = K(); k.extra = 3
ClassAttrHeap ==
    (1 :> Obj("K", <<BaseAttr("alpha", 11), MethodAttr("area", 21),
                     Attr("count", NoneId, "builtin"), InstAttr("extra", 13),
                     Attr("zeta", 12, "plain")>>)) @@
    (11 :> IntObj("1")) @@ (12 :> IntObj("2")) @@ (13 :> IntObj("3")) @@
    (21 :> MethodObj("width")) @@ (NoneId :> NoneObj)

\* class SafeString(str); class Color(enum.IntEnum): RED = 1; class Rows(list);
\* Point = namedtuple('Point', 'x y'); text = SafeString('x<y');
\* class Holder: color = Color.RED; point = Point(1, 2);
\* rows = Rows([text, Color.RED]); table = OrderedDict(a=text); text = text
DerivedHeap ==
    (1 :> Obj("Holder", <<Attr("color", 12, "plain"), Attr("point", 2, "plain"),
                          Attr("rows", 3, "plain"), Attr("table", 4, "plain"),
                          Attr("text", 11, "plain")>>)) @@
    (2 :> [Derived("Point", <<"tuple">>, Inherited(TupleObj(<<Entry("", 13), Entry("", 14)>>)))
              EXCEPT !.items = @ \o <<Attr("x", 13, "plain"), Attr("y", 14, "plain")>>]) @@
    (3 :> Derived("Rows", <<"list">>, Obj("list", <<Entry("", 11), Entry("", 12)>>))) @@
    (4 :> Derived("OrderedDict", <<"dict">>, Obj("dict", <<Entry("a", 11)>>))) @@
    (11 :> Derived("SafeString", <<"str">>, StrObj("x<y"))) @@
    (12 :> Derived("Color", <<"IntEnum", "int", "ReprEnum", "Enum">>, IntObj("1"))) @@
    (13 :> IntObj("1")) @@ (14 :> IntObj("2"))

\* for def f1(a) and def f3(a, b, c), class PartQuerySet(QuerySet) and
\* class Bound(partial): when = datetime(2020, 1, 2);
\* class Log: again = when; bound = partial(f3, SafeString('x'), b=Color.RED);
\* found = PartQuerySet of [when]; stamp = Bound(f1, when); when = when
StampHeap ==
    (1 :> Obj("Log", <<Attr("again", 11, "plain"), Attr("bound", 21, "plain"),
                       Attr("found", 2, "plain"), Attr("stamp", 22, "plain"),
                       Attr("when", 11, "plain")>>)) @@
    (2 :> Derived("PartQuerySet", <<"QuerySet">>, Obj("QuerySet", <<Entry("", 11)>>))) @@
    (11 :> Derived("datetime", <<"date">>,
                   [type |-> "date", str |-> "2020-01-02 00:00:00", items |-> <<>>])) @@
    (12 :> Derived("SafeString", <<"str">>, StrObj("x"))) @@
    (13 :> Derived("Color", <<"IntEnum", "int", "ReprEnum", "Enum">>, IntObj("1"))) @@
    (21 :> PartialObj(31, 41, 51)) @@
    (22 :> Derived("Bound", <<"partial">>, Inherited(PartialObj(32, 42, 52)))) @@
    (31 :> FuncObj("f3", Some(<<"a", "b", "c">>))) @@ (32 :> FuncObj("f1", Some(<<"a">>))) @@
    (41 :> TupleObj(<<Entry("", 12)>>)) @@ (42 :> TupleObj(<<Entry("", 11)>>)) @@
    (51 :> Obj("dict", <<Entry("b", 13)>>)) @@ (52 :> Obj("dict", <<>>))

\* {1: "x", "s": {2: {}}, (1, 2): [], None: 5}
KeyHeap ==
    (1 :> Obj("dict", <<KeyEntry("int", "1", 11), Entry("s", 2),
                        KeyEntry("tuple", "(1, 2)", 4), KeyEntry("NoneType", "None", 12)>>)) @@
    (2 :> Obj("dict", <<KeyEntry("int", "2", 3)>>)) @@
    (3 :> Obj("dict", <<>>)) @@
    (4 :> Obj("list", <<>>)) @@
    (11 :> StrObj("x")) @@ (12 :> IntObj("5"))

\* {1: {"a": 2}, (1, 2): []}: keys that are no strings, on containers only
ContainerKeyHeap ==
    (1 :> Obj("dict", <<KeyEntry("int", "1", 2), KeyEntry("tuple", "(1, 2)", 3)>>)) @@
    (2 :> Obj("dict", <<Entry("a", 11)>>)) @@
    (3 :> Obj("list", <<>>)) @@
    (11 :> IntObj("2"))

\* x = "seven"; [x, x, [x, None], None]: one str object and None, met again and again
RepeatHeap ==
    (1 :> Obj("list", <<Entry("", 11), Entry("", 11), Entry("", 2), Entry("", NoneId)>>)) @@
    (2 :> Obj("list", <<Entry("", 11), Entry("", NoneId)>>)) @@
    (11 :> StrObj("seven")) @@ (NoneId :> NoneObj)

CuratedHeaps == {ExampleHeap, SharedHeap, SelfHeap, ScalarHeap, NoneHeap,
                 PasswordHeap, AttrHeap, RaisingHeap, NestedRaisingHeap, ChainHeap,
                 CallableHeap, ShapeHeap, PartialHeap, BuiltinPartialHeap,
                 BuiltinPartialDictHeap, KeyHeap, ContainerKeyHeap, RepeatHeap,
                 ClassAttrHeap, DerivedHeap, StampHeap, BuiltinMethodHeap,
                 PartialAttrHeap}

\* the object handed to InspectionManager: the one with the least positive identity
RootOf(h) == CHOOSE o \in DOMAIN h : o > 0 /\ \A p \in DOMAIN h : p > 0 => o <= p

Min(a, b) == IF a <= b THEN a ELSE b

(***************************************************************************)
(* InspectionManager: the visited set and the factory.                     *)
(***************************************************************************)

\* a visited set that registers the simple values too
been_seen_before_all(h, proc, o) ==
    IF o \in proc THEN [seen |-> TRUE, processed |-> proc]
    ELSE [seen |-> FALSE, processed |-> proc \cup {o}]

\* been_seen_before(obj): the answer, and _processed after the call
been_seen_before(h, proc, o) ==
    IF IsSimple(h, o) THEN [seen |-> FALSE, processed |-> proc]
    ELSE IF o \in proc THEN [seen |-> TRUE, processed |-> proc]
    ELSE [seen |-> FALSE, processed |-> proc \cup {o}]

\* inspect_factory raises ValueError("... Depth exceeded") on this condition
DepthExceeded(depth) == depth <= 0

\* the InspectBase subclass inspect_factory picks for an object
inspect_factory(h, o) ==
    IF IsSimple(h, o) THEN "InspectSimpleType"
    ELSE IF h[o].type = "method" THEN "InspectMethod"
    ELSE IF InstanceOf(h[o], {"partial"}) THEN "InspectPartial"
    ELSE IF InstanceOf(h[o], {"dict"}) THEN "InspectDict"
    ELSE IF InstanceOf(h[o], {"list"}) THEN "InspectList"
    ELSE IF InstanceOf(h[o], {"QuerySet"}) THEN "InspectQuerySet"
    ELSE "InspectClass"

\* what InspectPartial.__init__ reads of a partial: obj.func.__name__, the
\* parameter names of inspect.signature(obj.func) (None when the function
\* has no signature), the values of obj.args and the entries of obj.keywords
PartialView(h, o) ==
    LET a == h[h[o].items[1].ref]
        f == h[h[o].items[2].ref]
        k == h[h[o].items[3].ref]
    IN  [func |-> f.str, sig |-> f.sig,
         args |-> [i \in 1..Len(a.elements) |-> h[a.elements[i].ref]],
         keywords |-> [i \in 1..Len(k.items) |-> [name |-> k.items[i].name,
                                                  val |-> h[k.items[i].ref]]]]

\* InspectMethod.__init__ and InspectPartial.__init__: inspect.signature(obj),
\* or inspect.signature(obj.func), raises ValueError
SignatureRaises(h, o) ==
    \/ inspect_factory(h, o) = "InspectMethod" /\ h[o].sig = None
    \/ inspect_factory(h, o) = "InspectPartial" /\ PartialView(h, o).sig = None

\* a factory that forgets to count the level it descends
NodeDepth_same(depth) == depth

\* the depth inspect_factory hands to the constructor of the node
NodeDepth(depth) == depth - 1

\* a manager that hands max_depth itself to the factory
RootDepth_same(max_depth) == max_depth

\* the depth InspectionManager.__init__ hands to inspect_factory for the root
RootDepth(max_depth) == max_depth + 1

(***************************************************************************)
(* The constructors of the InspectBase subclasses.                         *)
(***************************************************************************)

\* a guard that lets a constructor with no depth left add children
MayExpand_zero(depth) == depth >= 0

\* the guard `if depth > 0` in front of every _add_child call
MayExpand(depth) == depth > 0

\* attr_name.startswith('_')
IsPrivate(name) == Len(name) > 0 /\ Head(name) = "_"

\* InspectClass.__init__: getattr(obj, attr_name, None) lets an exception
\* other than AttributeError out; a private name is skipped before it is read
GetterRaises(e) == ~IsPrivate(e.name) /\ e.tag = "raises"

\* the value getattr(obj, attr_name, None) yields when it returns
AttrValue(e) == IF e.tag = "missing" THEN NoneId ELSE e.ref

\* a loop over dir(obj) that lets the private names through
SkipAttr_public(e) == e.tag \in {"builtin", "type", "do_not_call_in_templates"}

\* InspectClass.__init__: the attributes the loop over dir(obj) skips
SkipAttr(e) == IsPrivate(e.name) \/ e.tag \in {"builtin", "type", "do_not_call_in_templates"}

\* a constructor that iterates the whole query set instead of a slice of it
QueryItems_unsliced(items, depth, mItems) ==
    IF Len(items) > 0 /\ MayExpand(depth) THEN items ELSE <<>>

\* InspectQuerySet.__init__: obj.all()[:max_items], fetched only when there
\* are rows and depth is left
QueryItems(items, depth, mItems) ==
    IF Len(items) > 0 /\ MayExpand(depth) THEN SubSeq(items, 1, Min(mItems, Len(items)))
    ELSE <<>>

\* what the loop of a constructor runs over
LoopItems(h, cls, o, depth, mItems) ==
    IF cls = "InspectQuerySet" THEN QueryItems(h[o].items, depth, mItems)
    ELSE IF cls \in Containers THEN h[o].items
    ELSE <<>>

\* the name a constructor gives to the child made from entry i of its loop
ChildName(cls, e, i) == IF cls \in {"InspectList", "InspectQuerySet"} THEN ToString(i - 1) ELSE e.name

\* the `break` test at the end of one turn of the loop (i counts from 1)
LoopBreak(cls, nChildren, i, mItems) ==
    IF cls = "InspectDict" THEN nChildren >= mItems
    ELSE IF cls = "InspectList" THEN i - 1 >= mItems
    ELSE FALSE

\* the type of the name a constructor gives to a child: a dict hands its key
\* on as it is, the others a str
ChildNameType(cls, e) == IF cls = "InspectDict" THEN e.ktype ELSE "str"

\* a node as InspectBase.__init__ and the subclass leave it before the loop;
\* value is the object the node was made for, parent the node it hangs under;
\* name is str(self._name) and name_type the type of self._name
NewNode(h, cls, name, name_type, o, value, depth, parent, mItems) ==
    [cls |-> cls, name |-> name, name_type |-> name_type, obj |-> o, value |-> value,
     depth |-> depth,
     children |-> <<>>, parent |-> parent,
     total_items |-> IF cls = "InspectQuerySet" THEN Some(Len(h[o].items)) ELSE None,
     counts |-> IF cls = "InspectQuerySet" THEN 1 ELSE 0,
     reads |-> IF cls = "InspectQuerySet" THEN Len(QueryItems(h[o].items, depth, mItems)) ELSE 0]

NewFrame(h, idx, nd, mItems) ==
    [node |-> idx, i |-> 1, brk |-> FALSE,
     items |-> LoopItems(h, nd.cls, nd.obj, nd.depth, mItems)]

LoopDone(f) == f.brk \/ f.i > Len(f.items)

(***************************************************************************)
(* The state machine.                                                      *)
(***************************************************************************)
Heaps == {GenHeap(ty, rf) : ty \in [ObjectIds -> ContainerTypes], rf \in RefMaps}
           \cup CuratedHeaps

Init ==
    /\ heap \in Heaps
    /\ maxDepth \in -1..MaxDepth
    /\ maxItems \in 0..MaxItems
    /\ processed = {}
    /\ nodes = <<>>
    /\ stack = <<>>
    /\ pc = "new"
    /\ prev = <<>>
    /\ context = None
    /\ metadata = <<>>
    /\ stored = <<>>
    /\ writes = 0
    /\ pending = <<>>
    /\ past = <<>>
    /\ reply = None

Top == stack[Len(stack)]

\* the frame f after one turn of its loop has ended with nChildren children
Advance(f, cls, nChildren) ==
    [f EXCEPT !.i = f.i + 1, !.brk = LoopBreak(cls, nChildren, f.i, maxItems)]

\* an _add_child that leaves an object seen before out of the children
WithDuplicate_dropped(kids, idx) == kids

\* _add_child: the InspectDuplicate made for an object seen before is appended
WithDuplicate(kids, idx) == Append(kids, idx)

\* a manager that goes on with the visited set of the inspection before
NewProcessed_kept(proc) == proc

\* InspectionManager.__init__: self._processed = {}
NewProcessed(proc) == {}

\* InspectionManager.__init__: a fresh visited set, then the factory is
\* called for the root with max_depth + 1
Start ==
    /\ pc = "new"
    /\ processed' = NewProcessed(processed)
    /\ LET o == RootOf(heap)
           depth == RootDepth(maxDepth)
           cls == inspect_factory(heap, o)
           nd == NewNode(heap, cls, "obj", "str", o, o, NodeDepth(depth), 0, maxItems)
       IN  IF DepthExceeded(depth)
           THEN pc' = "error" /\ nodes' = <<>> /\ stack' = <<>>
           ELSE IF SignatureRaises(heap, o)
           THEN pc' = "raised" /\ nodes' = <<>> /\ stack' = <<>>
           ELSE /\ nodes' = <<nd>>
                /\ IF cls \in Containers
                   THEN pc' = "running" /\ stack' = <<NewFrame(heap, 1, nd, maxItems)>>
                   ELSE pc' = "done" /\ stack' = <<>>
    /\ UNCHANGED <<heap, maxDepth, maxItems, prev, context>>
    /\ UNCHANGED web

\* one turn of the loop of the innermost running constructor, with the
\* _add_child call it makes: a Duplicate, a value-only child, or the start
\* of the constructor of a container child
Iterate ==
    /\ pc = "running"
    /\ ~LoopDone(Top)
    /\ LET f == Top
           k == Len(stack)
           p == f.node
           nd == nodes[p]
           e == f.items[f.i]
           name == ChildName(nd.cls, e, f.i)
           val == IF nd.cls = "InspectClass" THEN AttrValue(e) ELSE e.ref
           seen == been_seen_before(heap, processed, val)
           cls == inspect_factory(heap, val)
           idx == Len(nodes) + 1
           ntype == ChildNameType(nd.cls, e)
           dup == NewNode(heap, "InspectDuplicate", name, ntype, NoneId, val, nd.depth, p, maxItems)
           child == NewNode(heap, cls, name, ntype, val, val, NodeDepth(nd.depth), p, maxItems)
       IN  IF nd.cls = "InspectClass" /\ GetterRaises(e)
           THEN \* the exception leaves every constructor and the manager's
                /\ pc' = "raised"
                /\ UNCHANGED <<nodes, stack, processed>>
           ELSE IF (nd.cls = "InspectClass" /\ SkipAttr(e)) \/ ~MayExpand(nd.depth)
           THEN \* no child is made in this turn
                /\ stack' = [stack EXCEPT ![k] = Advance(f, nd.cls, Len(nd.children))]
                /\ UNCHANGED <<nodes, processed, pc>>
           ELSE IF seen.seen
           THEN /\ nodes' = Append([nodes EXCEPT ![p].children = WithDuplicate(@, idx)], dup)
                /\ stack' = [stack EXCEPT ![k] = Advance(f, nd.cls, Len(WithDuplicate(nd.children, idx)))]
                /\ processed' = seen.processed
                /\ pc' = pc
           ELSE IF DepthExceeded(nd.depth)
           THEN /\ pc' = "error"
                /\ processed' = seen.processed
                /\ UNCHANGED <<nodes, stack>>
           ELSE IF SignatureRaises(heap, val)
           THEN \* the exception of the constructor of the child leaves them all
                /\ pc' = "raised"
                /\ processed' = seen.processed
                /\ UNCHANGED <<nodes, stack>>
           ELSE IF cls \in Containers
           THEN /\ nodes' = Append(nodes, child)
                /\ stack' = Append(stack, NewFrame(heap, idx, child, maxItems))
                /\ processed' = seen.processed
                /\ pc' = pc
           ELSE /\ nodes' = Append([nodes EXCEPT ![p].children = Append(@, idx)], child)
                /\ stack' = [stack EXCEPT ![k] = Advance(f, nd.cls, Len(nd.children) + 1)]
                /\ processed' = seen.processed
                /\ pc' = pc
    /\ UNCHANGED <<heap, maxDepth, maxItems, prev, context>>
    /\ UNCHANGED web

\* _total_items = len(obj), which ends the constructors of InspectDict and InspectList
Finished(nd) ==
    IF nd.cls \in {"InspectDict", "InspectList"}
    THEN [nd EXCEPT !.total_items = Some(Len(heap[nd.obj].items))]
    ELSE nd

\* the innermost constructor returns: the node goes to its parent's
\* _children (and the parent's loop goes on), or becomes the manager's _base
Return ==
    /\ pc = "running"
    /\ LoopDone(Top)
    /\ LET k == Len(stack)
           c == Top.node
           done == [nodes EXCEPT ![c] = Finished(@)]
       IN  IF k = 1
           THEN nodes' = done /\ stack' = <<>> /\ pc' = "done"
           ELSE LET f == stack[k - 1]
                    p == f.node
                IN  /\ nodes' = [done EXCEPT ![p].children = Append(@, c)]
                    /\ stack' = [SubSeq(stack, 1, k - 1) EXCEPT
                                    ![k - 1] = Advance(f, nodes[p].cls, Len(nodes[p].children) + 1)]
                    /\ pc' = pc
    /\ UNCHANGED <<heap, maxDepth, maxItems, processed, prev, context>>
    /\ UNCHANGED web

\* the caller keeps the finished tree and inspects the same object again,
\* with the same max_depth or with one level more
Reinspect ==
    /\ pc = "done"
    /\ prev = <<>>
    /\ prev' = <<[nodes |-> nodes, maxDepth |-> maxDepth]>>
    /\ \E d \in {maxDepth, maxDepth + 1} : d <= MaxDepth /\ maxDepth' = d
    /\ pc' = "new"
    /\ nodes' = <<>>
    /\ context' = None
    /\ UNCHANGED <<heap, maxItems, processed, stack>>
    /\ UNCHANGED web

(***************************************************************************)
(* What a node reports (the get_* methods) and the context built from it.  *)
(***************************************************************************)
\* the characters up to U+00FF that str.lower() changes, and what it makes
\* of them
UpperCase == "ABCDEFGHIJKLMNOPQRSTUVWXYZÀÁÂÃÄÅÆÇÈÉÊËÌÍÎÏÐÑÒÓÔÕÖØÙÚÛÜÝÞ"
LowerCase == "abcdefghijklmnopqrstuvwxyzàáâãäåæçèéêëìíîïðñòóôõöøùúûüýþ"

\* str.lower() of one character
LowerChar(c) ==
    IF \E i \in 1..Len(UpperCase) : SubSeq(UpperCase, i, i) = c
    THEN LET i == CHOOSE j \in 1..Len(UpperCase) : SubSeq(UpperCase, j, j) = c
         IN  SubSeq(LowerCase, i, i)
    ELSE c

\* str.lower()
RECURSIVE lower(_)
lower(s) == IF s = "" THEN "" ELSE LowerChar(Head(s)) \o lower(Tail(s))

\* sub in s, for strings
Contains(sub, s) == \E i \in 1..(Len(s) - Len(sub) + 1) : SubSeq(s, i, i + Len(sub) - 1) = sub

\* "password" in self._name.lower()
HasPassword(name) == Contains("password", lower(name))

RECURSIVE Stars(_)
Stars(n) == IF n = 0 THEN "" ELSE "*" \o Stars(n - 1)

get_total_children(nd) ==
    IF nd.cls \in {"InspectDict", "InspectList", "InspectQuerySet"} THEN nd.total_items
    ELSE IF nd.cls = "InspectClass" THEN Some(Len(nd.children))
    ELSE None

\* children reported as None whenever the list is empty
get_children_or_none(nd) ==
    IF get_total_children(nd) # None /\ nd.children # <<>> THEN Some(nd.children) ELSE None

\* the list of children handed out whatever the class of the node is
get_children_list(nd) == Some(nd.children)

get_children(nd) == IF get_total_children(nd) # None THEN Some(nd.children) ELSE None

get_format_id(nd) == nd.obj

get_format_link_to(nd) == IF nd.cls = "InspectDuplicate" THEN Some(nd.obj) ELSE None

\* ', '.join(parts)
RECURSIVE Join(_)
Join(parts) ==
    IF parts = <<>> THEN ""
    ELSE IF Len(parts) = 1 THEN parts[1]
    ELSE parts[1] \o ", " \o Join(Tail(parts))

\* InspectPartial.__init__: the value found for parameter i of the signature,
\* None (here NoneObj) unless obj.args or obj.keywords holds one
BoundValue(p, i) ==
    IF i <= Len(p.args) THEN p.args[i]
    ELSE IF \E k \in 1..Len(p.keywords) : p.keywords[k].name = p.sig.val[i]
    THEN p.keywords[CHOOSE k \in 1..Len(p.keywords) : p.keywords[k].name = p.sig.val[i]].val
    ELSE NoneObj

\* InspectPartial.__init__: self._parameters, each value the string form of a
\* whitelisted value or '(complex)'
partial_parameters(p) ==
    [i \in 1..Len(p.sig.val) |->
        [name |-> p.sig.val[i],
         value |-> IF InstanceOf(BoundValue(p, i), WHITELIST_USE_SIMPLE_TYPE)
                   THEN Some(BoundValue(p, i).str)
                   ELSE Some("(complex)")]]

\* InspectPartial.get_format_value
partial_format_value(params) ==
    Join([i \in 1..Len(params) |->
            IF params[i].value = None THEN params[i].name
            ELSE params[i].name \o "=" \o params[i].value.val])

\* InspectSimpleType.get_format_value: self._name.lower() raises
\* AttributeError when the name is no str
FormatValueRaises(nd) == nd.cls = "InspectSimpleType" /\ nd.name_type # "str"

\* the text get_format_value of the class of the node returns, where it returns
FormatValueText(h, nd) ==
    IF nd.cls = "InspectSimpleType"
    THEN IF HasPassword(nd.name) THEN "\"" \o Stars(Len(h[nd.obj].str)) \o "\""
         ELSE "\"" \o h[nd.obj].str \o "\""
    ELSE IF nd.cls = "InspectDuplicate" THEN "(duplicated)"
    ELSE IF nd.cls = "InspectMethod" THEN h[nd.obj].str
    ELSE IF nd.cls = "InspectPartial"
    THEN partial_format_value(partial_parameters(PartialView(h, nd.obj)))
    ELSE ""

\* get_format_value of the class of the node: the text, or the exception
get_format_value(h, nd) ==
    IF FormatValueRaises(nd) THEN Exc("AttributeError") ELSE Ok(FormatValueText(h, nd))

get_format_prefix(nd) ==
    IF nd.cls = "InspectSimpleType" THEN "="
    ELSE IF nd.cls \in {"InspectMethod", "InspectPartial"} THEN "("
    ELSE IF nd.cls \in {"InspectDict", "InspectClass"} THEN "{"
    ELSE IF nd.cls \in {"InspectList", "InspectQuerySet"} THEN "["
    ELSE ""

get_format_postfix(nd) ==
    IF nd.cls \in {"InspectMethod", "InspectPartial"} THEN ")"
    ELSE IF nd.cls \in {"InspectDict", "InspectClass"} THEN "}"
    ELSE IF nd.cls \in {"InspectList", "InspectQuerySet"} THEN "]"
    ELSE ""

\* the name, but for a partial: name(...) -> the name of its function
\* (the string form of the title; TitleType tells its type)
get_format_title(h, nd) ==
    IF nd.cls = "InspectPartial"
    THEN nd.name \o "(...) -> " \o PartialView(h, nd.obj).func ELSE nd.name

\* the type of the title: the type of the name, but for a partial, whose
\* title is an f-string
TitleType(nd) == IF nd.cls = "InspectPartial" THEN "str" ELSE nd.name_type

\* type(self._obj).__name__
get_format_type(h, nd) == IF nd.obj = NoneId THEN "NoneType" ELSE h[nd.obj].type

\* InspectionManager._build_context, where no get_format_value raises
RECURSIVE build_context(_, _, _)
build_context(h, ns, n) ==
    LET nd == ns[n]
        kids == get_children(nd)
    IN  [title |-> [type |-> TitleType(nd), str |-> get_format_title(h, nd)],
         id |-> get_format_id(nd),
         type |-> get_format_type(h, nd),
         prefix |-> get_format_prefix(nd),
         link_to |-> get_format_link_to(nd),
         value |-> FormatValueText(h, nd),
         postfix |-> get_format_postfix(nd),
         total_children |-> get_total_children(nd),
         inspect_type |-> nd.cls,
         children |-> IF kids # None
                      THEN Some([i \in 1..Len(kids.val) |-> build_context(h, ns, kids.val[i])])
                      ELSE None]

\* _build_context of node n raises: a getter of the node or of a node below does
RECURSIVE ContextRaises(_, _)
ContextRaises(ns, n) ==
    \/ FormatValueRaises(ns[n])
    \/ \E i \in 1..Len(ns[n].children) : ContextRaises(ns, ns[n].children[i])

\* the caller of the finished inspection has _build_context(self._base) made
\* (as format() does for the template)
BuildContext ==
    /\ pc = "done"
    /\ context = None
    /\ context' = IF ContextRaises(nodes, 1) THEN Exc("AttributeError")
                  ELSE Ok(build_context(heap, nodes, 1))
    /\ UNCHANGED <<heap, maxDepth, maxItems, processed, nodes, stack, pc, prev>>
    /\ UNCHANGED web

Next == Start \/ Iterate \/ Return \/ Reinspect \/ BuildContext

Spec == Init /\ [][Next]_vars

\* one inspection alone; the interpreter runs a started call to its end
NextOnce == Start \/ Iterate \/ Return

FairSpec == Init /\ [][NextOnce]_vars /\ WF_vars(NextOnce)

(***************************************************************************)
(* Vocabulary of the properties.                                           *)
(***************************************************************************)
Done == pc = "done"
Raised == pc = "raised"
NodeIds == 1..Len(nodes)
IsContainer(nd) == nd.cls \in Containers
IsDuplicate(nd) == nd.cls = "InspectDuplicate"

\* the true number of entries of the object a container node stands for
TrueCount(nd) == Len(heap[nd.obj].items)

\* generations between the root and node n
RECURSIVE Level(_, _)
Level(ns, n) == IF ns[n].parent = 0 THEN 0 ELSE 1 + Level(ns, ns[n].parent)

\* the names of the children of a node, in order
ChildNames(ns, nd) == [i \in 1..Len(nd.children) |-> ns[nd.children[i]].name]

(***************************************************************************)
(* C1.  For every finite object graph, cyclic or not, and every            *)
(* max_depth >= 0 and max_items >= 0, the construction of the tree         *)
(* terminates: an inspection that is started returns its tree (or ends     *)
(* with the exception of a getter of the object graph), and the nesting    *)
(* of the constructors never exceeds max_depth + 1 calls.                  *)
(***************************************************************************)
C1_Terminates ==
    /\ [](Len(stack) <= maxDepth + 1)
    /\ (pc = "new" /\ maxDepth >= 0) ~> (Done \/ Raised)

\* an inspection of a cyclic graph has returned: some Duplicate stands for
\* the object of its own parent or grandparent
C1_Witness ==
    /\ Done
    /\ \E d \in NodeIds :
          /\ IsDuplicate(nodes[d])
          /\ LET p == nodes[d].parent
             IN  \/ nodes[p].obj = nodes[d].value
                 \/ nodes[p].parent # 0 /\ nodes[nodes[p].parent].obj = nodes[d].value

(***************************************************************************)
(* C2.  Every Duplicate node of a built tree has linkTo equal to the       *)
(* identity of an earlier node of the same tree that is no Duplicate and   *)
(* stands for the same object.                                             *)
(***************************************************************************)
C2_DuplicateLinksToFirstSeen ==
    Done =>
        \A d \in NodeIds :
            IsDuplicate(nodes[d]) =>
                \E e \in 1..(d - 1) :
                    /\ ~IsDuplicate(nodes[e])
                    /\ nodes[e].value = nodes[d].value
                    /\ get_format_link_to(nodes[d]) = Some(get_format_id(nodes[e]))

(***************************************************************************)
(* C3.  The identity of every node that is no scalar, the root included,   *)
(* is in the visited set before any of its children is classified, so a    *)
(* child that refers back to its parent is a Duplicate: x = {};            *)
(* x["self"] = x with max_depth >= 1 gives a root Mapping whose single     *)
(* child is a Duplicate.                                                   *)
(***************************************************************************)
C3_RegisteredBeforeChildren ==
    /\ (pc = "running" /\ ~LoopDone(Top) /\ MayExpand(nodes[Top.node].depth)) =>
          nodes[Top.node].obj \in processed
    /\ (Done /\ heap = SelfHeap /\ maxDepth >= 1) =>
          /\ nodes[1].cls = "InspectDict"
          /\ Len(nodes[1].children) = 1
          /\ IsDuplicate(nodes[nodes[1].children[1]])

\* the first m entries of the object of node nd are its children, in order
FirstEntries(nd, m) ==
    /\ Len(nd.children) = m
    /\ \A i \in 1..Len(nd.children) :
          /\ i <= TrueCount(nd)
          /\ nodes[nd.children[i]].value = heap[nd.obj].items[i].ref
          /\ nodes[nd.children[i]].name = ChildName(nd.cls, heap[nd.obj].items[i], i)

(***************************************************************************)
(* C4.  A Sequence with K elements, depth left and max_items = M < K gets  *)
(* exactly M children, named "0" .. "M-1" in order, and reports            *)
(* declaredChildCount = K.                                                 *)
(***************************************************************************)
C4_SequenceTruncation ==
    Done =>
        \A n \in NodeIds :
            (nodes[n].cls = "InspectList" /\ nodes[n].depth > 0 /\ maxItems < TrueCount(nodes[n])) =>
                /\ FirstEntries(nodes[n], maxItems)
                /\ ChildNames(nodes, nodes[n]) = [i \in 1..maxItems |-> ToString(i - 1)]
                /\ get_total_children(nodes[n]) = Some(TrueCount(nodes[n]))

(***************************************************************************)
(* C5.  A Mapping with K entries, depth left and max_items = M with        *)
(* 0 <= M < K gets exactly M children, the first M entries in iteration    *)
(* order, and reports declaredChildCount = K.                              *)
(***************************************************************************)
C5_MappingTruncation ==
    Done =>
        \A n \in NodeIds :
            (nodes[n].cls = "InspectDict" /\ nodes[n].depth > 0 /\ maxItems < TrueCount(nodes[n])) =>
                /\ FirstEntries(nodes[n], maxItems)
                /\ get_total_children(nodes[n]) = Some(TrueCount(nodes[n]))

(***************************************************************************)
(* C6.  Classifying a LazyCollection issues exactly one count query and    *)
(* reads at most max_items elements of the backing store, none when the    *)
(* collection is empty or no depth is left; with K elements and            *)
(* max_items = M < K the node has M children, the first M elements, and    *)
(* declaredChildCount = K.                                                 *)
(***************************************************************************)
C6_LazyCollectionBounded ==
    \A n \in NodeIds :
        nodes[n].cls = "InspectQuerySet" =>
            /\ nodes[n].counts = 1
            /\ nodes[n].reads <= maxItems
            /\ (TrueCount(nodes[n]) = 0 \/ nodes[n].depth <= 0) => nodes[n].reads = 0
            /\ get_total_children(nodes[n]) = Some(TrueCount(nodes[n]))
            /\ (Done /\ nodes[n].depth > 0 /\ maxItems < TrueCount(nodes[n])) =>
                  FirstEntries(nodes[n], maxItems)

\* a query set of more than max_items rows was expanded, and rows were read
C6_Witness ==
    /\ Done
    /\ \E n \in NodeIds :
          /\ nodes[n].cls = "InspectQuerySet"
          /\ nodes[n].depth > 0
          /\ maxItems < TrueCount(nodes[n])
          /\ nodes[n].reads >= 1
          /\ Len(nodes[n].children) = maxItems

(***************************************************************************)
(* C7.  As claimed: a container node reached with no depth left has        *)
(* children = null, in the node and in the context built from it, while a  *)
(* container that was expanded and holds no entries has children = [].     *)
(***************************************************************************)
C7_NullWhenDepthExhausted ==
    Done =>
        \A n \in NodeIds :
            IsContainer(nodes[n]) =>
                /\ nodes[n].depth = 0 =>
                      /\ get_children(nodes[n]) = None
                      /\ build_context(heap, nodes, n).children = None
                /\ (nodes[n].depth > 0 /\ TrueCount(nodes[n]) = 0) =>
                      /\ get_children(nodes[n]) = Some(<<>>)
                      /\ build_context(heap, nodes, n).children = Some(<<>>)

(***************************************************************************)
(* C7, amended.  A container node reached with no depth left has           *)
(* children = [], an empty list and not null, exactly as a container that  *)
(* was expanded and holds no entries; the context built from the node      *)
(* carries the same list, and only the value-only nodes have children =    *)
(* null.  A Mapping, Sequence or LazyCollection with no depth left still   *)
(* reports its true declaredChildCount.                                    *)
(***************************************************************************)
C7_EmptyWhenDepthExhausted ==
    Done =>
        \A n \in NodeIds :
            LET nd == nodes[n]
                ctx == build_context(heap, nodes, n)
            IN  /\ IsContainer(nd) =>
                      /\ get_children(nd) = Some(nd.children)
                      /\ ctx.children # None
                      /\ Len(ctx.children.val) = Len(nd.children)
                      /\ (nd.depth = 0 \/ TrueCount(nd) = 0) => get_children(nd) = Some(<<>>)
                      /\ nd.cls # "InspectClass" => ctx.total_children = Some(TrueCount(nd))
                /\ ~IsContainer(nd) => (get_children(nd) = None /\ ctx.children = None)

\* a container that holds entries was reached with no depth left, and projected
C7_Witness ==
    /\ Done
    /\ \E n \in NodeIds :
          /\ IsContainer(nodes[n])
          /\ nodes[n].depth = 0
          /\ TrueCount(nodes[n]) >= 1
          /\ build_context(heap, nodes, n).children = Some(<<>>)

\* the loop of the constructor made children of the entries of the object
Expanded(nd) ==
    LET k == TrueCount(nd)
    IN  IF nd.cls = "InspectQuerySet" THEN Len(nd.children) = Min(k, maxItems)
        ELSE IF nd.cls = "InspectClass"
             THEN Len(nd.children) = Cardinality({i \in 1..k : ~SkipAttr(heap[nd.obj].items[i])})
        ELSE Len(nd.children) >= Min(k, maxItems) /\ (k >= 1 => Len(nd.children) >= 1)

(***************************************************************************)
(* C8.  Depth accounting: the root is at level 0 and every descent into a  *)
(* child uses up one unit of depth, so nodes exist at levels 0..max_depth  *)
(* only, a container above level max_depth is expanded and a container at  *)
(* level max_depth is not.  {"a": 1, "b": {"c": 2, "d": 3}} with           *)
(* max_depth = 2 gives children a and b, b with children c and d; with     *)
(* max_depth = 1, b is a Mapping with declaredChildCount 2 and no          *)
(* children.                                                               *)
(***************************************************************************)
C8_DepthAccounting ==
    /\ \A n \in NodeIds :
          /\ Level(nodes, n) <= maxDepth
          /\ ~IsDuplicate(nodes[n]) => nodes[n].depth = maxDepth - Level(nodes, n)
    /\ Done =>
          \A n \in NodeIds :
              IsContainer(nodes[n]) =>
                  IF Level(nodes, n) < maxDepth THEN Expanded(nodes[n])
                  ELSE nodes[n].children = <<>>
    /\ (Done /\ heap = ExampleHeap /\ maxItems >= 2 /\ maxDepth = 2) =>
          /\ Len(nodes) = 5
          /\ nodes[1].cls = "InspectDict" /\ ChildNames(nodes, nodes[1]) = <<"a", "b">>
          /\ nodes[2].cls = "InspectSimpleType" /\ get_format_value(heap, nodes[2]) = Ok("\"1\"")
          /\ nodes[3].cls = "InspectDict" /\ ChildNames(nodes, nodes[3]) = <<"c", "d">>
          /\ nodes[3].children = <<4, 5>>
          /\ get_format_value(heap, nodes[4]) = Ok("\"2\"")
          /\ get_format_value(heap, nodes[5]) = Ok("\"3\"")
    /\ (Done /\ heap = ExampleHeap /\ maxItems >= 2 /\ maxDepth = 1) =>
          /\ Len(nodes) = 3
          /\ ChildNames(nodes, nodes[1]) = <<"a", "b">>
          /\ nodes[3].cls = "InspectDict"
          /\ get_total_children(nodes[3]) = Some(2)
          /\ nodes[3].children = <<>>

\* the example was inspected two levels deep
C8_Witness ==
    /\ Done
    /\ heap = ExampleHeap
    /\ maxDepth = 2
    /\ maxItems = 2
    /\ Len(nodes[3].children) = 2

(***************************************************************************)
(* Two inspections of one object graph, the later one a level deeper.      *)
(***************************************************************************)
OneDeeper == Done /\ prev # <<>> /\ maxDepth = prev[1].maxDepth + 1

\* the largest level of a tree
Height(ns) ==
    LET ls == {Level(ns, n) : n \in 1..Len(ns)}
    IN  CHOOSE m \in ls : \A l \in ls : l <= m

\* every branch below node o of the tree old that has children has the
\* same children below node n of the tree new
RECURSIVE Preserved(_, _, _, _)
Preserved(old, o, new, n) ==
    old[o].children # <<>> =>
        /\ ChildNames(old, old[o]) = ChildNames(new, new[n])
        /\ \A i \in 1..Len(old[o].children) :
              Preserved(old, old[o].children[i], new, new[n].children[i])

\* the same, but for the branches that a Duplicate of the tree new cuts
RECURSIVE PreservedOrCut(_, _, _, _)
PreservedOrCut(old, o, new, n) ==
    (old[o].children # <<>> /\ ~IsDuplicate(new[n])) =>
        /\ ChildNames(old, old[o]) = ChildNames(new, new[n])
        /\ \A i \in 1..Len(old[o].children) :
              PreservedOrCut(old, old[o].children[i], new, new[n].children[i])

(***************************************************************************)
(* C9.  As claimed: every branch that has expanded children in the tree    *)
(* built with max_depth = d has the same children in the tree built with   *)
(* max_depth = d + 1; none is replaced by a Duplicate or by an unexpanded  *)
(* node.                                                                   *)
(***************************************************************************)
C9_BranchesPreserved == OneDeeper => Preserved(prev[1].nodes, 1, nodes, 1)

(***************************************************************************)
(* C9, amended.  Every branch that has expanded children in the tree       *)
(* built with max_depth = d has the same children in the tree built with   *)
(* max_depth = d + 1, unless that branch or one above it is a Duplicate    *)
(* in the deeper tree (its object was first met on an earlier path that    *)
(* the smaller depth did not reach); the height of the tree never          *)
(* decreases.                                                              *)
(***************************************************************************)
C9_BranchesPreservedOrCut ==
    OneDeeper =>
        /\ PreservedOrCut(prev[1].nodes, 1, nodes, 1)
        /\ Height(nodes) >= Height(prev[1].nodes)

\* the deeper inspection has cut a branch the shallower one had expanded
C9_Witness ==
    /\ OneDeeper
    /\ ~Preserved(prev[1].nodes, 1, nodes, 1)
    /\ PreservedOrCut(prev[1].nodes, 1, nodes, 1)

(***************************************************************************)
(* C10.  The error "Depth exceeded" is raised exactly when the classifier  *)
(* is called with depth <= 0, and no inspection started with               *)
(* max_depth >= 0 ever does so: neither the call for the root nor any      *)
(* _add_child call hands a depth <= 0 to inspect_factory.                  *)
(***************************************************************************)
C10_DepthNeverExceeded ==
    /\ pc = "error" => maxDepth < 0
    /\ (maxDepth < 0 /\ pc # "new") => pc = "error"
    /\ \A n \in NodeIds : ~IsDuplicate(nodes[n]) => ~DepthExceeded(nodes[n].depth + 1)
    /\ (pc = "running" /\ ~LoopDone(Top) /\ MayExpand(nodes[Top.node].depth)) =>
          ~DepthExceeded(nodes[Top.node].depth)

\* a constructor with no depth left runs its loop over entries it will not classify
C10_Witness ==
    /\ pc = "running"
    /\ maxDepth >= 0
    /\ ~LoopDone(Top)
    /\ nodes[Top.node].depth = 0
    /\ Len(stack) >= 2

(***************************************************************************)
(* Scalar nodes and the names of their fields.                             *)
(***************************************************************************)
\* the names of the object graphs that hold "password" in some letter case
PasswordNames ==
    {"Password", "db_PASSWORD_1", "password", "password_box", "password_hint", "PASSWORD"}

\* the character c occurs in the string s
CharIn(c, s) == \E i \in 1..Len(s) : SubSeq(s, i, i) = c

\* the string form of the value a Scalar node stands for
StrOf(nd) == heap[nd.obj].str

(***************************************************************************)
(* C11.  Scalar masking: the valueText of a Scalar node whose field name   *)
(* holds "password" in any letter case is a run of '*' between double      *)
(* quotes, as long as the string form of the value, and shows none of the  *)
(* characters of the value (but the '*' a value itself holds); the         *)
(* valueText of any other Scalar node is the string form of the value      *)
(* (between double quotes).                                                *)
(***************************************************************************)
C11_ScalarMasking ==
    /\ \A n \in NodeIds :
          nodes[n].cls = "InspectSimpleType" =>
              LET nd == nodes[n]
                  v == StrOf(nd)
                  r == get_format_value(heap, nd)
                  txt == r.val
              IN  r.ok /\
                  IF nd.name \in PasswordNames
                  THEN /\ Len(txt) = Len(v) + 2
                       /\ Head(txt) = "\"" /\ SubSeq(txt, Len(txt), Len(txt)) = "\""
                       /\ \A i \in 2..(Len(txt) - 1) : SubSeq(txt, i, i) = "*"
                       /\ \A i \in 1..Len(v) :
                             SubSeq(v, i, i) # "*" => ~CharIn(SubSeq(v, i, i), txt)
                  ELSE txt = "\"" \o v \o "\""
    /\ (Done /\ heap = PasswordHeap /\ maxDepth >= 2 /\ maxItems >= 1) =>
          [i \in 1..Len(nodes) |-> get_format_value(heap, nodes[i]).val] =
              <<"", "\"*******\"", "\"****\"", "\"word\"", "\"\"", "",
                "\"****\"", "\"***\"", "\"bob\"">>

(***************************************************************************)
(* Composite nodes and the attributes of their objects.                    *)
(***************************************************************************)
\* an attribute that is to be shown: a public name whose value is no
\* built-in callable, no class and not flagged do_not_call_in_templates
Qualifies(e) ==
    /\ SubSeq(e.name, 1, 1) # "_"
    /\ e.tag \notin {"builtin", "type", "do_not_call_in_templates"}

\* the qualifying attributes of the object of a Composite node, in dir() order
QualifyingAttrs(nd) == SelectSeq(heap[nd.obj].items, Qualifies)

(***************************************************************************)
(* C12.  Composite attribute filtering: the children of a Composite node   *)
(* that has depth left are exactly the attributes of its object whose      *)
(* name does not start with '_' and whose value is no built-in callable,   *)
(* no class and not flagged do_not_call_in_templates, in the order of      *)
(* dir(); no excluded attribute is ever a child, and max_items does not    *)
(* limit them.                                                             *)
(***************************************************************************)
C12_CompositeFiltering ==
    /\ \A n \in NodeIds :
          nodes[n].cls = "InspectClass" =>
              \A i \in 1..Len(nodes[n].children) :
                  \E j \in 1..Len(QualifyingAttrs(nodes[n])) :
                      /\ nodes[nodes[n].children[i]].name = QualifyingAttrs(nodes[n])[j].name
                      /\ nodes[nodes[n].children[i]].value = AttrValue(QualifyingAttrs(nodes[n])[j])
    /\ Done =>
          \A n \in NodeIds :
              (nodes[n].cls = "InspectClass" /\ nodes[n].depth > 0) =>
                  ChildNames(nodes, nodes[n]) =
                      [j \in 1..Len(QualifyingAttrs(nodes[n])) |-> QualifyingAttrs(nodes[n])[j].name]
    /\ (Done /\ heap = AttrHeap /\ maxDepth >= 1) =>
          ChildNames(nodes, nodes[1]) = <<"gone", "name", "owner", "parts", "size", "tags">>

\* with max_items = 0 an object with private, built-in, class and flagged
\* attributes has been expanded to its six qualifying attributes
C12_Witness ==
    /\ Done
    /\ maxItems = 0
    /\ \E n \in NodeIds :
          /\ nodes[n].cls = "InspectClass"
          /\ Len(nodes[n].children) = 6
          /\ Len(heap[nodes[n].obj].items) = 10
          /\ \E i \in 1..Len(heap[nodes[n].obj].items) : IsPrivate(heap[nodes[n].obj].items[i].name)

(***************************************************************************)
(* C13.  When reading an attribute during the expansion of a Composite     *)
(* raises, the failure is recovered locally: the inspection does not       *)
(* abort, the attribute is still a child of the node (its valueText an     *)
(* error description) and the sibling attributes after it are processed.   *)
(***************************************************************************)
C13_GetterFailureRecovered ==
    /\ ~Raised
    /\ Done =>
          \A n \in NodeIds :
              (nodes[n].cls = "InspectClass" /\ nodes[n].depth > 0) =>
                  \A i \in 1..Len(heap[nodes[n].obj].items) :
                      LET e == heap[nodes[n].obj].items[i]
                      IN  (Qualifies(e) /\ e.tag = "raises") =>
                              \E c \in 1..Len(nodes[n].children) :
                                  /\ nodes[nodes[n].children[c]].name = e.name
                                  /\ nodes[nodes[n].children[c]].cls = "InspectSimpleType"

(***************************************************************************)
(* The plugin: parts, categories and their metadata.                       *)
(***************************************************************************)
METADATA_PARENT == "part_template_plugin"

\* the database: parts 1 and 2, categories 1 and 2; part 1 lies in category
\* 2, whose parent is category 1; part 2 has no category
PartPks == {1, 2}
CategoryPks == {1, 2}
CategoryOf == (1 :> Some(2)) @@ (2 :> None)
ParentOf == (1 :> None) @@ (2 :> Some(1))
Instances == ({"part"} \X PartPks) \cup ({"category"} \X CategoryPks)

\* the settings T1_KEY .. T5_KEY and T1_TEMPLATE .. T5_TEMPLATE
Settings ==
    <<[key |-> "description", template |-> "D1"], [key |-> "category", template |-> "D2"],
      [key |-> "", template |-> ""], [key |-> "", template |-> ""], [key |-> "", template |-> ""]>>
Keys == {"description", "category"}
DefaultOf(key) ==
    LET i == CHOOSE j \in 1..Len(Settings) : Settings[j].key = key IN Settings[i].template

\* a Python dict from keys to templates
EmptyDict == [k \in {} |-> ""]
Get(d, k) == IF k \in DOMAIN d THEN Some(d[k]) ELSE None
Put(d, k, v) == [x \in DOMAIN d \cup {k} |-> IF x = k THEN v ELSE d[x]]
Del(d, k) == [x \in DOMAIN d \ {k} |-> d[x]]

\* a sequence without its i-th element
Without(seq, i) == SubSeq(seq, 1, i - 1) \o SubSeq(seq, i + 1, Len(seq))

\* instance.metadata is None, or a dict: `other` tells whether it holds an
\* entry of another plugin, `parent` is its entry METADATA_PARENT if it has
\* one; that entry is a dict with templates held directly under their key
\* (`direct`) and with or without the entry "templates"
NoMetadata == [kind |-> "None"]
MetaDict(other, parent) == [kind |-> "dict", other |-> other, parent |-> parent]
ParentDict(direct, templates) == [direct |-> direct, templates |-> templates]

\* the truth value Python gives to a metadata, to a plugin entry, to a str
TruthyMeta(md) == md.kind = "dict" /\ (md.other \/ md.parent.some)
TruthyParent(pd) == DOMAIN pd.direct # {} \/ pd.templates.some
TruthyStr(o) == o.some /\ o.val # ""

\* the test that opens _find_template and _find_category_template:
\*   m and m[METADATA_PARENT] and m[METADATA_PARENT].get(key)
\* and the template m[METADATA_PARENT][key] it lets return
OwnTemplate(md, key) ==
    IF ~TruthyMeta(md) THEN Ok(None)
    ELSE IF ~md.parent.some THEN Exc("KeyError")
    ELSE IF TruthyParent(md.parent.val) /\ TruthyStr(Get(md.parent.val.direct, key))
         THEN Ok(Get(md.parent.val.direct, key))
    ELSE Ok(None)

\* _find_category_template(category, key, default_template); category is
\* the pk of a category, or None
RECURSIVE find_category_template(_, _, _, _)
find_category_template(db, category, key, default_template) ==
    IF ~category.some THEN Exc("AttributeError")
    ELSE LET own == OwnTemplate(db[<<"category", category.val>>], key)
         IN  IF ~own.ok THEN own
             ELSE IF own.val.some THEN Ok(own.val.val)
             ELSE IF ParentOf[category.val].some
                  THEN find_category_template(db, ParentOf[category.val], key, default_template)
             ELSE Ok(default_template)

\* _find_template(part, key, default_template)
find_template(db, part, key, default_template) ==
    LET own == OwnTemplate(db[<<"part", part>>], key)
    IN  IF ~own.ok THEN own
        ELSE IF own.val.some THEN Ok(own.val.val)
        ELSE find_category_template(db, CategoryOf[part], key, default_template)

\* _get_panel_context: the dict "templates" of the plugin entry of a
\* metadata, or {} when any link of the chain is missing or empty
MetadataTemplates(md) ==
    IF TruthyMeta(md) /\ md.parent.some /\ TruthyParent(md.parent.val)
       /\ md.parent.val.templates.some /\ DOMAIN md.parent.val.templates.val # {}
    THEN md.parent.val.templates.val
    ELSE EmptyDict

\* the entries _get_panel_context has appended after the first n settings,
\* or the exception one of their lookups raised
RECURSIVE PanelEntries(_, _, _)
PanelEntries(db, instance, n) ==
    IF n = 0 THEN Ok(<<>>)
    ELSE LET before == PanelEntries(db, instance, n - 1)
             key == Settings[n].key
             parent_category ==
                 IF instance[1] = "part" THEN CategoryOf[instance[2]] ELSE ParentOf[instance[2]]
             inherited == find_category_template(db, parent_category, key, Settings[n].template)
             got == Get(MetadataTemplates(db[instance]), key)
         IN  IF ~before.ok THEN before
             ELSE IF ~inherited.ok THEN inherited
             ELSE IF key # ""
                  THEN Ok(Append(before.val,
                                 [key |-> key,
                                  template |-> IF got.some THEN got.val ELSE "",
                                  inherited_template |-> inherited.val,
                                  entity |-> "category",
                                  pk |-> instance[2]]))
             ELSE before

\* _get_panel_context(instance)
get_panel_context(db, instance) == PanelEntries(db, instance, Len(Settings))

\* Template(template).render(context): the tag {% bad %} is no tag of the
\* template language; a template of plain text renders as itself
BadTemplates == {"{% bad %}"}
apply_template(template) ==
    IF template \in BadTemplates THEN Exc("TemplateSyntaxError") ELSE Ok(template)

\* the value of context['part_templates']: unset, a dict, or a set
Unset == [kind |-> "unset"]
CtxDict(d) == [kind |-> "dict", d |-> d]
CtxSet(elems) == [kind |-> "set", elems |-> elems]

\* _add_context once its loop has handled the first n settings: the value
\* of context['part_templates'], whether the call has returned early, and
\* the exception that has left it, if any
RECURSIVE AddContextLoop(_, _, _)
AddContextLoop(db, part, n) ==
    IF n = 0 THEN [ctx |-> CtxDict(EmptyDict), returned |-> FALSE, exc |-> None]
    ELSE LET before == AddContextLoop(db, part, n - 1)
             key == Settings[n].key
             found == find_template(db, part, key, Settings[n].template)
             result == apply_template(found.val)
         IN  IF before.returned \/ before.exc.some \/ key = "" THEN before
             ELSE IF ~found.ok THEN [before EXCEPT !.exc = Some(found.exc)]
             ELSE IF ~result.ok
                  THEN [ctx |-> CtxDict("error" :> "Template error"), returned |-> TRUE, exc |-> None]
             ELSE [before EXCEPT !.ctx = CtxDict(Put(before.ctx.d, key, result.val))]

\* _cast_part(instance): the part of a Part or of a StockItem, else None
cast_part(instance) ==
    IF instance[1] \in {"part", "stock"} THEN Some(instance[2]) ELSE None

\* _add_context(instance, context) on an empty context: what
\* context['part_templates'] is afterwards, and the exception that escaped
add_context(db, instance) ==
    LET part == cast_part(instance)
    IN  IF part.some
        THEN LET end == AddContextLoop(db, part.val, Len(Settings))
             IN  [ctx |-> end.ctx, exc |-> end.exc]
        ELSE \* type(instance).__type__ raises before the set is built
             [ctx |-> Unset, exc |-> Some("AttributeError")]

\* the request gets as far as Part.objects.get / PartCategory.objects.get
\* and the instance exists
Fetches(entity, pk, template) ==
    template.some /\ entity \in {"part", "category"} /\ <<entity, pk>> \in Instances

\* _webapi_set_template(request, key, entity, pk), template being
\* request.GET.get('template'), on a database db that nothing else changes
\* while the request is handled: the database afterwards, whether
\* instance.save() was called, and the response or the exception
set_template(db, key, entity, pk, template) ==
    IF ~template.some
    THEN [db |-> db, saved |-> FALSE,
          result |-> Ok([status |-> "error", message |-> "Missing required parameter: template"])]
    ELSE IF entity \notin {"part", "category"}
    THEN [db |-> db, saved |-> FALSE,
          result |-> Ok([status |-> "error", message |-> "Invalid entity type"])]
    ELSE IF <<entity, pk>> \notin Instances
    THEN [db |-> db, saved |-> FALSE, result |-> Exc("DoesNotExist")]
    ELSE LET md == db[<<entity, pk>>]
             m1 == IF TruthyMeta(md) THEN md ELSE MetaDict(FALSE, None)
             pd1 == IF m1.parent.some /\ TruthyParent(m1.parent.val)
                    THEN m1.parent.val ELSE ParentDict(EmptyDict, None)
             t1 == IF pd1.templates.some /\ DOMAIN pd1.templates.val # {}
                   THEN pd1.templates.val ELSE EmptyDict
             With(t) == MetaDict(m1.other, Some(ParentDict(pd1.direct, Some(t))))
             Saved(m) == [db EXCEPT ![<<entity, pk>>] = m]
             Response(m) == Ok([status |-> "ok", metadata |-> m])
         IN  IF template.val # ""
             THEN [db |-> Saved(With(Put(t1, key, template.val))), saved |-> TRUE,
                   result |-> Response(With(Put(t1, key, template.val)))]
             ELSE IF TruthyStr(Get(t1, key))
             THEN [db |-> Saved(With(Del(t1, key))), saved |-> TRUE,
                   result |-> Response(With(Del(t1, key)))]
             ELSE [db |-> db, saved |-> FALSE, result |-> Response(With(t1))]

(***************************************************************************)
(* The plugin as a state machine: requests and callbacks on one database.  *)
(***************************************************************************)
Db(p1, p2, c1, c2) ==
    (<<"part", 1>> :> p1) @@ (<<"part", 2>> :> p2) @@
    (<<"category", 1>> :> c1) @@ (<<"category", 2>> :> c2)

Direct(d) == MetaDict(FALSE, Some(ParentDict(d, None)))
Templates(d) == MetaDict(FALSE, Some(ParentDict(EmptyDict, Some(d))))

\* the metadata part 1 starts with
PartMetas ==
    {NoMetadata, MetaDict(FALSE, None), MetaDict(TRUE, None), Direct(EmptyDict),
     Direct("description" :> "P"), Direct("description" :> ""),
     Templates(EmptyDict), Templates("description" :> "P"),
     MetaDict(TRUE, Some(ParentDict(EmptyDict, Some("category" :> "P"))))}

\* the metadata part 2, category 1 and category 2 start with
HeldMetas ==
    <<Direct("description" :> "P2"), Direct(("description" :> "C1") @@ ("category" :> "K1")),
      Direct("description" :> "C2")>>
OtherMetas ==
    {<<NoMetadata, NoMetadata, NoMetadata>>,
     HeldMetas,
     <<NoMetadata, Direct("category" :> "{% bad %}"), MetaDict(FALSE, None)>>,
     <<MetaDict(TRUE, None), Templates("description" :> "C1"), MetaDict(TRUE, None)>>}

\* the databases a run starts with: every metadata of part 1 beside
\* categories that hold templates, and every metadata of the others beside a
\* part 1 without metadata
Databases ==
    {Db(p1, HeldMetas[1], HeldMetas[2], HeldMetas[3]) : p1 \in PartMetas}
        \cup {Db(NoMetadata, o[1], o[2], o[3]) : o \in OtherMetas}

\* what a set_template request may carry
Entities == {"part", "category", "stock"}
Pks == {1, 2, 3}
RequestTemplates == {None, Some(""), Some("A")}

PluginInit ==
    /\ metadata \in Databases
    /\ stored = EmptyDict
    /\ writes = 0
    /\ pending = <<>>
    /\ past = <<>>
    /\ reply = None
    /\ heap = ScalarHeap /\ maxDepth = 0 /\ maxItems = 0 /\ processed = {}
    /\ nodes = <<>> /\ stack = <<>> /\ pc = "idle" /\ prev = <<>> /\ context = None

\* the panel frontend sends set_template/<key>/<entity>/<pk>/?template=...:
\* the handler answers at once when the template parameter is missing, the
\* entity type is invalid or the instance does not exist; else it fetches
\* the instance, and holds its own copy of the row from then on
SetTemplateGet ==
    /\ writes < MaxWrites
    /\ \E key \in Keys, entity \in Entities, pk \in Pks, template \in RequestTemplates :
          IF Fetches(entity, pk, template)
          THEN /\ pending' = Append(pending, [key |-> key, instance |-> <<entity, pk>>,
                                               template |-> template,
                                               row |-> metadata[<<entity, pk>>]])
               /\ UNCHANGED reply
          ELSE /\ reply' = [op |-> "set_template", key |-> key, instance |-> <<entity, pk>>,
                             template |-> template,
                             result |-> set_template(metadata, key, entity, pk, template).result]
               /\ UNCHANGED pending
    /\ writes' = writes + 1
    /\ UNCHANGED <<metadata, stored, past>>
    /\ UNCHANGED insp

\* a handler that holds an instance goes on: it sets or deletes the key in
\* its copy of the row and, where the code calls instance.save(), writes the
\* whole copy over the row of the database, whatever has been saved there
\* since the copy was fetched
SetTemplateSave ==
    /\ \E i \in 1..Len(pending) :
          LET q == pending[i]
              r == set_template([metadata EXCEPT ![q.instance] = q.row], q.key,
                                q.instance[1], q.instance[2], q.template)
          IN  /\ metadata' = IF r.saved THEN [metadata EXCEPT ![q.instance] = r.db[q.instance]]
                                         ELSE metadata
              /\ reply' = [op |-> "set_template", key |-> q.key, instance |-> q.instance,
                            template |-> q.template, result |-> r.result]
              /\ stored' = Put(stored, <<q.instance, q.key>>, q.template.val)
              /\ past' = IF r.saved THEN Append(past, metadata) ELSE past
              /\ pending' = Without(pending, i)
    /\ UNCHANGED writes
    /\ UNCHANGED insp

\* The calls that only read are handed a model instance that was fetched
\* before (view.get_object() of the panel, the model_instance of a report or
\* label): the row of the instance is read then.  The rows of the related
\* instances are read later, each by the query Django makes when the related
\* object is first asked for (instance.part, part.category,
\* category.parent), and kept with the object from then on.  No transaction
\* spans these queries, and requests that save may be handled between them:
\* each row is read from the database of its time, a past one or the present.

\* the categories from `category` upward
RECURSIVE CategoryRows(_)
CategoryRows(category) ==
    IF category.some
    THEN <<<<"category", category.val>>>> \o CategoryRows(ParentOf[category.val])
    ELSE <<>>

\* the rows a call may read for an instance, in the order it reads them
RowsRead(op, instance) ==
    IF instance[1] = "category"
    THEN IF op = "get_panel_context"
         THEN <<instance>> \o CategoryRows(ParentOf[instance[2]])
         ELSE <<instance>>
    ELSE <<<<"part", instance[2]>>>> \o CategoryRows(CategoryOf[instance[2]])

\* the databases there have been, the present one last
History == Append(past, metadata)

\* the times at which a call that returns now may have read its n rows
ReadTimes(n) ==
    {t \in [1..n -> 1..Len(History)] : \A j \in 1..(n - 1) : t[j] <= t[j + 1]}

\* the database as a call has read it, its j-th row at time t[j]
Seen(op, instance, t) ==
    LET rows == RowsRead(op, instance)
    IN  [x \in DOMAIN metadata |->
            IF \E j \in 1..Len(rows) : rows[j] = x
            THEN History[t[CHOOSE j \in 1..Len(rows) : rows[j] = x]][x]
            ELSE metadata[x]]

\* the databases a call that returns now may have read
SeenBy(op, instance) ==
    {Seen(op, instance, t) : t \in ReadTimes(Len(RowsRead(op, instance)))}

\* _find_template(part, key, default_template) returns or raises: a caller
\* has resolved the template of a key for a part
FindTemplate ==
    /\ \E part \in PartPks, key \in Keys :
          \E seen \in SeenBy("find_template", <<"part", part>>) :
              reply' = [op |-> "find_template", key |-> key, instance |-> <<"part", part>>,
                        fresh |-> seen = metadata,
                        result |-> find_template(seen, part, key, DefaultOf(key))]
    /\ UNCHANGED <<metadata, stored, writes, pending, past>>
    /\ UNCHANGED insp

\* _get_panel_context(instance) returns or raises: the panel of a part or
\* category page has been rendered
PanelContext ==
    /\ \E instance \in Instances :
          \E seen \in SeenBy("get_panel_context", instance) :
              reply' = [op |-> "get_panel_context", instance |-> instance,
                        fresh |-> seen = metadata,
                        result |-> get_panel_context(seen, instance)]
    /\ UNCHANGED <<metadata, stored, writes, pending, past>>
    /\ UNCHANGED insp

\* _add_context(instance, context) returns or raises: a report or label has
\* been rendered for a part, a stock item or something else
AddContext ==
    /\ \E instance \in Instances \cup ({"stock"} \X PartPks) :
          \E seen \in SeenBy("add_context", instance) :
              reply' = [op |-> "add_context", instance |-> instance,
                        fresh |-> seen = metadata,
                        result |-> add_context(seen, instance)]
    /\ UNCHANGED <<metadata, stored, writes, pending, past>>
    /\ UNCHANGED insp

PluginNext == SetTemplateGet \/ SetTemplateSave \/ FindTemplate \/ PanelContext \/ AddContext

PluginSpec == PluginInit /\ [][PluginNext]_vars

(***************************************************************************)
(* Vocabulary of the properties of the plugin.                             *)
(***************************************************************************)
Replied(op) == reply # None /\ reply.op = op

\* the template an instance holds for a key where _find_template looks for
\* it, if it holds one
HeldTemplate(md, key) ==
    IF md.kind = "dict" /\ md.parent.some THEN Get(md.parent.val.direct, key) ELSE None

\* the template of the nearest category at or above `category` that holds
\* one for the key, else the default
RECURSIVE NearestTemplate(_, _, _)
NearestTemplate(db, category, key) ==
    IF ~category.some THEN DefaultOf(key)
    ELSE IF TruthyStr(HeldTemplate(db[<<"category", category.val>>], key))
         THEN HeldTemplate(db[<<"category", category.val>>], key).val
    ELSE NearestTemplate(db, ParentOf[category.val], key)

\* the part's own template, else the nearest category's, else the default
ExpectedTemplate(db, part, key) ==
    IF TruthyStr(HeldTemplate(db[<<"part", part>>], key))
    THEN HeldTemplate(db[<<"part", part>>], key).val
    ELSE NearestTemplate(db, CategoryOf[part], key)

(***************************************************************************)
(* C14.  Template resolution precedence: _find_template(part, key,         *)
(* default) returns the part's own template for the key if the part has    *)
(* one, else the template of the nearest category above the part that has  *)
(* one, else the default; for every part and category, those with empty    *)
(* metadata or with metadata that holds no entry of this plugin included.  *)
(* The database is the one the call has read: no row it read has been      *)
(* saved anew before it returned.                                          *)
(***************************************************************************)
C14_ResolutionPrecedence ==
    (Replied("find_template") /\ reply.fresh) =>
        /\ reply.result.ok
        /\ reply.result.val = ExpectedTemplate(metadata, reply.instance[2], reply.key)

\* the template last stored through the web request for (instance, key);
\* "" when none was stored or the last request removed it
StoredFor(instance, key) ==
    IF <<instance, key>> \in DOMAIN stored THEN stored[<<instance, key>>] ELSE ""

(***************************************************************************)
(* C15.  Override round trip: once _webapi_set_template has stored a       *)
(* non-empty template T under key K for a part or category, resolving K    *)
(* for that part (or for a part in that category that has no override of   *)
(* its own) with _find_template returns T, and _get_panel_context reports  *)
(* T as the template of that instance for K.  The resolution is a later    *)
(* one: no row it read has been saved anew before it returned.             *)
(***************************************************************************)
C15_OverrideRoundTrip ==
    /\ (Replied("find_template") /\ reply.fresh) =>
          LET part == reply.instance
              category == CategoryOf[part[2]]
          IN  /\ StoredFor(part, reply.key) # "" =>
                    reply.result = Ok(StoredFor(part, reply.key))
              /\ (/\ StoredFor(part, reply.key) = ""
                  /\ ~TruthyStr(HeldTemplate(metadata[part], reply.key))
                  /\ category.some
                  /\ StoredFor(<<"category", category.val>>, reply.key) # "") =>
                    reply.result = Ok(StoredFor(<<"category", category.val>>, reply.key))
    /\ (Replied("get_panel_context") /\ reply.fresh) =>
          \A key \in Keys :
              StoredFor(reply.instance, key) # "" =>
                  /\ reply.result.ok
                  /\ \E i \in 1..Len(reply.result.val) :
                        /\ reply.result.val[i].key = key
                        /\ reply.result.val[i].template = StoredFor(reply.instance, key)

\* the keys the settings configure
ConfiguredKeys == {Settings[i].key : i \in 1..Len(Settings)} \ {""}

(***************************************************************************)
(* C16.  Whenever _add_context cannot produce the template values (the     *)
(* instance is neither a Part nor a StockItem, or a template raises while  *)
(* it is found or rendered), the call returns normally and                 *)
(* context['part_templates'] is a mapping with the single key 'error';     *)
(* it is never a set, never a mix of rendered keys and an error, and no    *)
(* exception escapes.                                                      *)
(***************************************************************************)
C16_ErrorRecordWellFormed ==
    Replied("add_context") =>
        /\ ~reply.result.exc.some
        /\ reply.result.ctx.kind = "dict"
        /\ \/ DOMAIN reply.result.ctx.d = {"error"}
           \/ DOMAIN reply.result.ctx.d = ConfiguredKeys
        /\ cast_part(reply.instance) = None => DOMAIN reply.result.ctx.d = {"error"}

(***************************************************************************)
(* The filter show_properties (templatetags/part_templates.py).  The HTML  *)
(* it returns is modelled by its parts in output order: one record for     *)
(* every value that is formatted, with the level at which it stands.       *)
(***************************************************************************)
\* the classes whose instances _format_object displays directly
ShowSimpleTypes == {"str", "int", "float", "bool", "Decimal", "complex", "Pattern", "Match"}

\* html.escape(s)
EscapeChar(c) ==
    IF c = "&" THEN "&amp;" ELSE IF c = "<" THEN "&lt;" ELSE IF c = ">" THEN "&gt;"
    ELSE IF c = "\"" THEN "&quot;" ELSE IF c = "'" THEN "&#x27;" ELSE c
RECURSIVE escape(_)
escape(s) == IF s = "" THEN "" ELSE EscapeChar(Head(s)) \o escape(Tail(s))

\* int(s) of a string of characters up to U+00FF: white space around the
\* number is dropped, one sign may lead, and the digits may be grouped by
\* single underscores; anything else raises ValueError.  The white space int
\* drops is the space, \t, \n, \r, \f, the vertical tab, U+0085 and U+00A0
\* (the last three of WhiteSpace); the separators U+001C to U+001F are none
Digits == "0123456789"
WhiteSpace == " \t\n\r\f "
DigitValue(c) == (CHOOSE i \in 1..Len(Digits) : SubSeq(Digits, i, i) = c) - 1
RECURSIVE Strip(_)
Strip(s) ==
    IF s = "" THEN s
    ELSE IF CharIn(Head(s), WhiteSpace) THEN Strip(Tail(s))
    ELSE IF CharIn(SubSeq(s, Len(s), Len(s)), WhiteSpace) THEN Strip(SubSeq(s, 1, Len(s) - 1))
    ELSE s
IsSign(c) == c = "+" \/ c = "-"
Unsigned(s) == IF s # "" /\ IsSign(Head(s)) THEN Tail(s) ELSE s
IsDigits(s) ==
    /\ Len(s) > 0
    /\ \A i \in 1..Len(s) : CharIn(SubSeq(s, i, i), Digits) \/ SubSeq(s, i, i) = "_"
    /\ Head(s) # "_" /\ SubSeq(s, Len(s), Len(s)) # "_"
    /\ \A i \in 1..(Len(s) - 1) : SubSeq(s, i, i + 1) # "__"
RECURSIVE DigitsValue(_)
DigitsValue(s) ==
    IF s = "" THEN 0
    ELSE LET c == SubSeq(s, Len(s), Len(s))
             front == DigitsValue(SubSeq(s, 1, Len(s) - 1))
         IN  IF c = "_" THEN front ELSE front * Len(Digits) + DigitValue(c)
IntOf(s) ==
    LET t == Strip(s)
    IN  IF ~IsDigits(Unsigned(t)) THEN Exc("ValueError")
        ELSE IF Head(t) = "-" THEN Ok(0 - DigitsValue(Unsigned(t)))
        ELSE Ok(DigitsValue(Unsigned(t)))

\* the filter argument as the template engine hands it over: a string, an
\* integer or None
StrArg(s) == [type |-> "str", val |-> s]
IntArg(n) == [type |-> "int", num |-> n]
NoneArg == [type |-> "NoneType"]

\* int(depth) in show_properties, 2 when it raises ValueError; the TypeError
\* int(None) raises is not caught
ParseDepth(depth) ==
    IF depth.type = "NoneType" THEN Exc("TypeError")
    ELSE IF depth.type = "int" THEN Ok(depth.num)
    ELSE IF IntOf(depth.val).ok THEN IntOf(depth.val) ELSE Ok(2)

\* one part of the output: kind is "simple" (text shown), "dict", "list" or
\* "object" (expanded: the parts of its members follow), "elided" (shown as
\* { ... } or [ ... ]) or "previous" ([ previously output ])
Part(kind, obj, text, level) ==
    [kind |-> kind, obj |-> obj, text |-> text, level |-> level, name |-> ""]

\* the part a caller labels with the key or attribute name of the member
Named(out, name) == [out EXCEPT ![1].name = name]

\* the attributes _format_object collects of a custom object: those of
\* inspect.classify_class_attrs(type(obj)) that type(obj) itself defines,
\* public and of no method kind; a getter that raises leaves the text of its
\* error as the value
MethodKinds == {"method", "class method", "static method"}
ShowAttrs(items) ==
    SelectSeq(items, LAMBDA e : /\ e.defined = "class"
                                /\ ~IsPrivate(e.name)
                                /\ e.kind \notin MethodKinds)

\* the elements of a list or tuple
Elements(h, o) == IF InstanceOf(h[o], {"tuple"}) THEN h[o].elements ELSE h[o].items

\* _track_recursion(obj, processed): the answer and processed afterwards
track_recursion(o, proc) ==
    [new |-> o \notin proc, processed |-> proc \cup {o}]

\* the outcome of _format_object: the parts of the text returned and
\* processed afterwards, or the TypeError raised (no parts then)
Shown(out, proc) == [ok |-> TRUE, out |-> out, processed |-> proc]
JoinRaises == [ok |-> FALSE, out |-> <<>>, processed |-> {}]

RECURSIVE format_object(_, _, _, _, _)
RECURSIVE FormatMembers(_, _, _, _, _, _)
RECURSIVE FormatElements(_, _, _, _, _, _)

\* the entries i, i + 1, ... of a dict, or attributes of an object,
\* formatted in order, each into an f-string behind its key or name
FormatMembers(h, items, i, depth, proc, level) ==
    IF i > Len(items) THEN Shown(<<>>, proc)
    ELSE LET e == items[i]
             first == IF e.tag = "raises"
                      THEN Shown(<<Part("simple", None, "[Error: boom] (str)", level)>>, proc)
                      ELSE format_object(h, AttrValue(e), depth, proc, level)
             rest == FormatMembers(h, items, i + 1, depth, first.processed, level)
         IN  IF ~first.ok \/ ~rest.ok THEN JoinRaises
             ELSE Shown(Named(first.out, e.name) \o rest.out, rest.processed)

\* the elements i, i + 1, ... of a list or tuple, formatted in order;
\* proxy: one of them is an object shown before, for which _format_object
\* returns the lazy translation _('[ previously output ]'), which is no str
FormatElements(h, items, i, depth, proc, level) ==
    IF i > Len(items) THEN [ok |-> TRUE, out |-> <<>>, processed |-> proc, proxy |-> FALSE]
    ELSE LET first == format_object(h, items[i].ref, depth, proc, level)
             rest == FormatElements(h, items, i + 1, depth, first.processed, level)
         IN  IF ~first.ok \/ ~rest.ok
             THEN [ok |-> FALSE, out |-> <<>>, processed |-> {}, proxy |-> FALSE]
             ELSE [ok |-> TRUE, out |-> first.out \o rest.out, processed |-> rest.processed,
                   proxy |-> rest.proxy \/ first.out[1].kind = "previous"]

\* _format_object(obj, depth, proc, level)
format_object(h, o, depth, proc, level) ==
    IF o = NoneId THEN Shown(<<Part("simple", None, "None", level)>>, proc)
    ELSE IF InstanceOf(h[o], ShowSimpleTypes)
    THEN Shown(<<Part("simple", None, escape(h[o].str) \o " (" \o h[o].type \o ")", level)>>, proc)
    ELSE LET t == track_recursion(o, proc)
             Expand(kind, m) ==
                 IF m.ok THEN Shown(<<Part(kind, Some(o), "", level)>> \o m.out, m.processed)
                 ELSE JoinRaises
             Elide == Shown(<<Part("elided", Some(o), "", level)>>, t.processed)
         IN  IF ~t.new THEN Shown(<<Part("previous", Some(o), "", level)>>, proc)
             ELSE IF InstanceOf(h[o], {"dict"})
             THEN IF depth > 1
                  THEN Expand("dict", FormatMembers(h, h[o].items, 1, depth - 1, t.processed, level + 1))
                  ELSE Elide
             ELSE IF InstanceOf(h[o], {"list", "tuple"})
             THEN IF depth > 1
                  THEN LET m == FormatElements(h, Elements(h, o), 1, depth - 1, t.processed, level + 1)
                       IN  \* ', '.join(items) raises TypeError on an item that is no str
                           IF m.ok /\ m.proxy THEN JoinRaises
                           ELSE Expand("list", [ok |-> m.ok, out |-> m.out, processed |-> m.processed])
                  ELSE Elide
             ELSE IF depth > 1
                  THEN Expand("object", FormatMembers(h, ShowAttrs(h[o].items), 1, depth, t.processed, level + 1))
                  ELSE Elide

\* show_properties(obj, depth): the parts of the HTML, or the exception
show_properties(h, o, depth) ==
    IF ParseDepth(depth).ok
    THEN LET r == format_object(h, o, ParseDepth(depth).val, {}, 0)
         IN  IF r.ok THEN Ok(r.out) ELSE Exc("TypeError")
    ELSE ParseDepth(depth)

\* the object graphs the filter is applied to: those of dicts, lists and
\* custom objects, and the explicit ones with a tuple, with methods, with
\* attributes that the class of the object does not define and with
\* instances of classes that derive from str, int, list, dict and tuple
ShowHeaps ==
    {h \in Heaps :
        \A o \in DOMAIN h :
            /\ h[o].type \notin {"QuerySet", "method", "partial"}
            /\ \A i \in 1..Len(h[o].items) : h[o].items[i].tag \in {"plain", "missing", "raises"}}
    \cup {AttrHeap, CallableHeap, ShapeHeap, PartialHeap, ClassAttrHeap, DerivedHeap,
          PartialAttrHeap}

\* the filter argument: a depth in digits, as a string or as an integer,
\* strings int() reads with a sign, white space (a vertical tab after the
\* number, U+00A0 before it) or an underscore, strings it rejects (U+0085
\* inside the number among them), and None
ShowDepthArgs ==
    {StrArg(ToString(d)) : d \in 0..MaxDepth} \cup {IntArg(d) : d \in 0..MaxDepth}
    \cup {StrArg(s) : s \in {"x", "", "-1", "+1", " 3", "3 ", "1_0", "1__0", "_1", "2.5", "+ 1"}}
    \cup {StrArg("1" \o SubSeq(WhiteSpace, 6, 6)), StrArg(SubSeq(WhiteSpace, 8, 8) \o "3"),
          StrArg("1" \o SubSeq(WhiteSpace, 7, 7) \o "0")}
    \cup {NoneArg}

ShowInit ==
    /\ heap \in ShowHeaps
    /\ reply = None
    /\ maxDepth = 0 /\ maxItems = 0 /\ processed = {}
    /\ nodes = <<>> /\ stack = <<>> /\ pc = "idle" /\ prev = <<>> /\ context = None
    /\ metadata = <<>> /\ stored = <<>> /\ writes = 0 /\ pending = <<>> /\ past = <<>>

\* a template applies the filter: {{ obj|show_properties:depth }}
ShowProperties ==
    /\ reply = None
    /\ \E depth \in ShowDepthArgs :
          reply' = [op |-> "show_properties", depth |-> depth,
                    result |-> show_properties(heap, RootOf(heap), depth)]
    /\ UNCHANGED <<heap, maxDepth, maxItems, processed, nodes, stack, pc, prev, context>>
    /\ UNCHANGED <<metadata, stored, writes, pending, past>>

ShowNext == ShowProperties

ShowSpec == ShowInit /\ [][ShowNext]_vars

\* the parts of an output that stand for a value whose members are shown
ExpandedKinds == {"dict", "list", "object"}

(***************************************************************************)
(* C17.  show_properties(obj, depth) shows at most `depth` levels of       *)
(* nesting: no value that lies `depth` or more containment steps (dict     *)
(* entry, list or tuple element or object attribute) below obj is          *)
(* expanded, whatever mix of dicts, lists and custom objects the path goes *)
(* through.                                                                *)
(***************************************************************************)
C17_ShowDepthBound ==
    (Replied("show_properties") /\ reply.result.ok) =>
        \A d \in 0..MaxDepth :
            reply.depth \in {StrArg(ToString(d)), IntArg(d)} =>
                \A i \in 1..Len(reply.result.val) :
                    reply.result.val[i].kind \in ExpandedKinds => reply.result.val[i].level < d

(***************************************************************************)
(* C18.  In every built tree the children of a node are null exactly when  *)
(* the node is value-only (Scalar, BoundMethod, PartialCall, Duplicate);   *)
(* every Mapping, Sequence, LazyCollection and Composite node has a        *)
(* children sequence, be it empty; the context built from the tree agrees. *)
(***************************************************************************)
C18_NullChildrenIffValueOnly ==
    Done =>
        \A n \in NodeIds :
            /\ nodes[n].cls \in ValueOnly \cup Containers
            /\ get_children(nodes[n]) = None <=> nodes[n].cls \in ValueOnly
            /\ build_context(heap, nodes, n).children = None <=> nodes[n].cls \in ValueOnly
            /\ nodes[n].cls \in Containers =>
                  /\ get_children(nodes[n]) = Some(nodes[n].children)
                  /\ Len(build_context(heap, nodes, n).children.val) = Len(nodes[n].children)

\* a tree with a node of every value-only class, a container with children
\* and a container without
C18_Witness ==
    /\ Done
    /\ \A c \in ValueOnly :
          \E n \in NodeIds : nodes[n].cls = c /\ get_children(nodes[n]) = None
    /\ \E q, r \in NodeIds :
          /\ nodes[q].cls = "InspectDict" /\ Len(nodes[q].children) = 2
          /\ get_children(nodes[q]) = Some(nodes[q].children)
          /\ nodes[r].cls = "InspectList" /\ get_children(nodes[r]) = Some(<<>>)

\* the number of children the object of a container node holds: the entries
\* of a dict, list or QuerySet, the qualifying attributes of any other object
HeldCount(nd) ==
    IF nd.cls = "InspectClass" THEN Len(QualifyingAttrs(nd)) ELSE TrueCount(nd)

\* some child the object holds has no node under nd
Omitted(nd) == Len(nd.children) < HeldCount(nd)

(***************************************************************************)
(* C19.  In every built tree the declared child count of a container node  *)
(* is at least the number of its expanded children, and the two are equal  *)
(* exactly when no child of the underlying object was omitted.             *)
(***************************************************************************)
C19_DeclaredCountVersusExpanded ==
    Done =>
        \A n \in NodeIds :
            nodes[n].cls \in Containers =>
                /\ get_total_children(nodes[n]) # None
                /\ get_total_children(nodes[n]).val >= Len(nodes[n].children)
                /\ get_total_children(nodes[n]).val = Len(nodes[n].children)
                       <=> ~Omitted(nodes[n])

(***************************************************************************)
(* C20.  The declared child count of a container node is the number of     *)
(* children its object holds, whatever max_items and the remaining depth   *)
(* are: the entries of a dict, list or QuerySet, and the qualifying        *)
(* attributes of a Composite, also when no depth is left.                  *)
(***************************************************************************)
C20_DeclaredCountIsHeldCount ==
    Done =>
        \A n \in NodeIds :
            nodes[n].cls \in Containers =>
                get_total_children(nodes[n]) = Some(HeldCount(nodes[n]))

(***************************************************************************)
(* The classifier.                                                         *)
(***************************************************************************)
\* the classes inspect_factory tests for, in the order of its tests
Shapes == <<"InspectSimpleType", "InspectMethod", "InspectPartial", "InspectDict",
            "InspectList", "InspectQuerySet", "InspectClass">>

\* the test inspect_factory makes for a class: isinstance or inspect.ismethod,
\* and none for InspectClass
Matches(h, o, cls) ==
    IF cls = "InspectSimpleType" THEN IsSimple(h, o)
    ELSE IF cls = "InspectMethod" THEN o # NoneId /\ h[o].type = "method"
    ELSE IF cls = "InspectPartial" THEN o # NoneId /\ InstanceOf(h[o], {"partial"})
    ELSE IF cls = "InspectDict" THEN o # NoneId /\ InstanceOf(h[o], {"dict"})
    ELSE IF cls = "InspectList" THEN o # NoneId /\ InstanceOf(h[o], {"list"})
    ELSE IF cls = "InspectQuerySet" THEN o # NoneId /\ InstanceOf(h[o], {"QuerySet"})
    ELSE TRUE

\* the first class, in the order of the tests, that the object matches
FirstMatch(h, o) ==
    Shapes[CHOOSE i \in 1..Len(Shapes) :
              /\ Matches(h, o, Shapes[i])
              /\ \A j \in 1..(i - 1) : ~Matches(h, o, Shapes[j])]

(***************************************************************************)
(* C21.  Classification is total and the first match wins: every value     *)
(* handed to the classifier with depth left gets one node, of the first    *)
(* class it matches in the order Scalar, BoundMethod, PartialCall,         *)
(* Mapping, Sequence, LazyCollection, Composite; a scalar-eligible value   *)
(* is always a Scalar, and a value of no earlier shape becomes a           *)
(* Composite, which never makes the inspection fail.                       *)
(***************************************************************************)
C21_ClassificationTotal ==
    /\ \A n \in NodeIds :
          ~IsDuplicate(nodes[n]) =>
              /\ nodes[n].cls = FirstMatch(heap, nodes[n].value)
              /\ IsSimple(heap, nodes[n].value) => nodes[n].cls = "InspectSimpleType"
    /\ ~Raised

(***************************************************************************)
(* Partials.                                                               *)
(***************************************************************************)
\* parameter i of the function of the partial p has a pre-bound argument,
\* by position or by keyword
PreBound(p, i) ==
    \/ i <= Len(p.args)
    \/ \E k \in 1..Len(p.keywords) : p.keywords[k].name = p.sig.val[i]

\* a value the classifier would make a Scalar of
ScalarEligible(v) == InstanceOf(v, WHITELIST_USE_SIMPLE_TYPE) \/ v.type = "NoneType"

\* the fragment shown for parameter i: name=value, name=(complex) or name
Fragment(p, i) ==
    IF ~PreBound(p, i) THEN p.sig.val[i]
    ELSE IF ScalarEligible(BoundValue(p, i)) THEN p.sig.val[i] \o "=" \o BoundValue(p, i).str
    ELSE p.sig.val[i] \o "=(complex)"

(***************************************************************************)
(* C22.  The valueText of a PartialCall node is the list, joined by        *)
(* commas in the order of the formal parameters of the function, of one    *)
(* fragment per parameter: name=value for a parameter pre-bound (by        *)
(* position or keyword) to a scalar-eligible value, name=(complex) for one *)
(* pre-bound to another value, and the bare name for one not pre-bound.    *)
(***************************************************************************)
C22_PartialValueText ==
    \A n \in NodeIds :
        nodes[n].cls = "InspectPartial" =>
            LET p == PartialView(heap, nodes[n].obj)
            IN  get_format_value(heap, nodes[n]) =
                    Ok(Join([i \in 1..Len(p.sig.val) |-> Fragment(p, i)]))

(***************************************************************************)
(* Mappings and their keys.                                                *)
(***************************************************************************)
\* the children of node nd stand, in order, for the first entries of its
\* object, each under the string form of its key
EntriesInOrder(nd) ==
    /\ Len(nd.children) <= TrueCount(nd)
    /\ \A i \in 1..Len(nd.children) :
          /\ nodes[nd.children[i]].value = heap[nd.obj].items[i].ref
          /\ nodes[nd.children[i]].name = heap[nd.obj].items[i].name

(***************************************************************************)
(* C23.  The children of a Mapping node stand for its entries, one each,   *)
(* in iteration order, and the title of each child is the string form of   *)
(* its key, whatever the type of the key; a tree built from a mapping      *)
(* with keys that are no strings is projected without an error.            *)
(***************************************************************************)
C23_MappingKeysAsStrings ==
    /\ \A n \in NodeIds :
          (nodes[n].cls = "InspectDict" /\ (Done \/ n \notin {stack[k].node : k \in 1..Len(stack)})) =>
              /\ EntriesInOrder(nodes[n])
              /\ \A i \in 1..Len(nodes[n].children) :
                    LET c == nodes[nodes[n].children[i]]
                    IN  /\ TitleType(c) = "str"
                        /\ c.cls # "InspectPartial" =>
                              get_format_title(heap, c) = heap[nodes[n].obj].items[i].name
    /\ context # None => context.ok

(***************************************************************************)
(* The visited set.                                                        *)
(***************************************************************************)
\* the nodes made for the object o
NodesOf(o) == {n \in NodeIds : nodes[n].value = o}

(***************************************************************************)
(* C24.  Scalars are exempt from the visited set: a check of a scalar      *)
(* value neither registers it nor reports it as seen, so every occurrence  *)
(* of a scalar value in one traversal, of one and the same object too, is  *)
(* a Scalar node and none is a Duplicate.                                  *)
(***************************************************************************)
C24_ScalarsNotVisited ==
    /\ \A o \in processed : ~IsSimple(heap, o)
    /\ \A o \in DOMAIN heap :
          IsSimple(heap, o) =>
              been_seen_before(heap, processed, o) = [seen |-> FALSE, processed |-> processed]
    /\ \A n \in NodeIds :
          IsSimple(heap, nodes[n].value) => nodes[n].cls = "InspectSimpleType"

\* one scalar object was met three times in a finished traversal
C24_Witness ==
    /\ Done
    /\ \E o \in DOMAIN heap :
          /\ IsSimple(heap, o)
          /\ Cardinality(NodesOf(o)) >= 3
          /\ \A n \in NodesOf(o) : nodes[n].cls = "InspectSimpleType"

\* a second inspection of the same object graph, with the same max_depth and
\* max_items, has returned
SameAgain == Done /\ prev # <<>> /\ maxDepth = prev[1].maxDepth

(***************************************************************************)
(* C25.  The visited set belongs to one inspection: it is empty when the   *)
(* inspection starts, whatever an earlier inspection left, so a second     *)
(* inspection of the same object graph with the same max_depth and         *)
(* max_items builds the same tree as the first, and no step of an          *)
(* inspection changes the object graph.                                    *)
(***************************************************************************)
C25_VisitedSetPrivate ==
    /\ [](SameAgain => nodes = prev[1].nodes)
    /\ [][pc = "new" => processed' = {}]_vars
    /\ [][heap' = heap]_vars

\* the second inspection has returned the tree of the first, a tree with a
\* Duplicate, after the first had left its visited set filled
C25_Witness ==
    /\ SameAgain
    /\ processed # {}
    /\ nodes = prev[1].nodes
    /\ \E d \in NodeIds : IsDuplicate(nodes[d])

(***************************************************************************)
(* C26.  A Duplicate node never has children and the traversal never goes  *)
(* into the object it stands for: for an occurrence of an object found in  *)
(* the visited set no class is picked, no constructor runs and no child    *)
(* is made.                                                                *)
(***************************************************************************)
C26_DuplicateIsLeaf ==
    \A d \in NodeIds :
        IsDuplicate(nodes[d]) =>
            /\ nodes[d].value \in processed
            /\ nodes[d].children = <<>>
            /\ get_children(nodes[d]) = None
            /\ get_total_children(nodes[d]) = None
            /\ \A n \in NodeIds : nodes[n].parent # d
            /\ \A k \in 1..Len(stack) : stack[k].node # d
            /\ nodes[d].obj = NoneId
            /\ (context # None /\ context.ok) =>
                  build_context(heap, nodes, d).children = None

\* a finished and projected tree holds a Duplicate of a container that has
\* entries of its own
C26_Witness ==
    /\ Done
    /\ context # None /\ context.ok
    /\ \E d \in NodeIds :
          /\ IsDuplicate(nodes[d])
          /\ Len(heap[nodes[d].value].items) >= 1
          /\ inspect_factory(heap, nodes[d].value) \in Containers
          /\ build_context(heap, nodes, d).value = "(duplicated)"

\* the nodes made for the object o that are no Duplicate
ExpandedNodesOf(o) == {n \in NodesOf(o) : ~IsDuplicate(nodes[n])}

(***************************************************************************)
(* C27.  In one traversal every non-scalar object is expanded at most      *)
(* once: the tree holds at most one node that is no Duplicate for it, and  *)
(* every later occurrence of the object, of the root object too, is a      *)
(* Duplicate.                                                              *)
(***************************************************************************)
C27_ExpandedAtMostOnce ==
    \A o \in DOMAIN heap :
        ~IsSimple(heap, o) =>
            /\ Cardinality(ExpandedNodesOf(o)) <= 1
            /\ \A n, k \in NodesOf(o) : n < k => IsDuplicate(nodes[k])

(***************************************************************************)
(* The context built from a tree.                                          *)
(***************************************************************************)
ContextKeys == {"title", "id", "type", "prefix", "link_to", "value", "postfix",
                "total_children", "children", "inspect_type"}

\* the context ctx has the shape of the tree below node n: the same keys in
\* every context, no children where the node is value-only, and else one
\* context per child of the node, in the order of the children
RECURSIVE SameShape(_, _)
SameShape(ctx, n) ==
    /\ DOMAIN ctx = ContextKeys
    /\ ctx.inspect_type = nodes[n].cls
    /\ ctx.id = nodes[n].obj
    /\ ctx.title.str = get_format_title(heap, nodes[n])
    /\ IF nodes[n].cls \in ValueOnly
       THEN ctx.children = None
       ELSE /\ ctx.children # None
            /\ Len(ctx.children.val) = Len(nodes[n].children)
            /\ \A i \in 1..Len(nodes[n].children) :
                  SameShape(ctx.children.val[i], nodes[n].children[i])

(***************************************************************************)
(* C28.  _build_context keeps the structure and changes nothing: the       *)
(* context tree has the shape of the node tree (the same children in the   *)
(* same order, null where the node has null, an empty list where it has    *)
(* an empty list), every context holds exactly the keys title, id, type,   *)
(* prefix, link_to, value, postfix, total_children, children and           *)
(* inspect_type, and the call leaves the node tree and the visited set as  *)
(* they were.                                                              *)
(***************************************************************************)
C28_ContextPreservesStructure ==
    /\ []((context # None /\ context.ok) => SameShape(context.val, 1))
    /\ [][context' # context =>
            (nodes' = nodes /\ processed' = processed /\ heap' = heap) \/ pc' = "new"]_vars

\* a context was built of a tree that holds a value-only node, a container
\* with children and a container with an empty list of children
C28_Witness ==
    /\ context # None /\ context.ok
    /\ \E a, b, c \in NodeIds :
          /\ nodes[a].cls \in ValueOnly
          /\ nodes[b].cls \in Containers /\ nodes[b].children = <<>>
          /\ nodes[c].cls \in Containers /\ Len(nodes[c].children) >= 2 /\ nodes[c].parent # 0
    /\ context.val.children # None
    /\ \E i \in 1..Len(context.val.children.val) :
          context.val.children.val[i].children = Some(<<>>)

(***************************************************************************)
(* The frame of a set_template request.                                    *)
(***************************************************************************)
\* what the metadata md holds beside the templates stored by the requests:
\* the entries of other plugins and the entries directly under the plugin's
HeldBeside(md) ==
    IF TruthyMeta(md)
    THEN [other |-> md.other,
          direct |-> IF md.parent.some THEN md.parent.val.direct ELSE EmptyDict]
    ELSE [other |-> FALSE, direct |-> EmptyDict]

\* the request answered by reply has changed, on its instance, the stored
\* template of its key and nothing else
OnlyKeyChanged(old, new, r) ==
    LET inst == r.instance
        was == MetadataTemplates(old[inst])
        now == MetadataTemplates(new[inst])
    IN  /\ \A k \in (DOMAIN was \cup DOMAIN now) \ {r.key} : Get(was, k) = Get(now, k)
        /\ r.template.val # "" => Get(now, r.key) = Some(r.template.val)
        /\ r.template.val = "" => r.key \notin DOMAIN now
        /\ HeldBeside(new[inst]) = HeldBeside(old[inst])

\* a second request to remove the template of a key changes nothing more
RemoveIdempotent(db) ==
    \A key \in Keys, inst \in Instances :
        LET once == set_template(db, key, inst[1], inst[2], Some("")).db
        IN  set_template(once, key, inst[1], inst[2], Some("")).db = once

(***************************************************************************)
(* C29.  A set_template request changes only the entry of its key: a       *)
(* non-empty template is stored under the key, an empty one removes the    *)
(* entry (a second removal changes nothing), the templates stored under    *)
(* the other keys of the instance and the metadata of the other instances  *)
(* stay as they were, and a request without template parameter or with an  *)
(* invalid entity type changes nothing.                                    *)
(***************************************************************************)
C29_SetTemplateFrame ==
    /\ [][(writes' # writes \/ pending' # pending) =>
            /\ Len(pending') >= Len(pending) => metadata' = metadata
            /\ (writes' # writes /\ pending' = pending) =>
                  ~Fetches(reply'.instance[1], reply'.instance[2], reply'.template)
            /\ Len(pending') < Len(pending) =>
                  /\ \A i \in Instances \ {reply'.instance} : metadata'[i] = metadata[i]
                  /\ OnlyKeyChanged(metadata, metadata', reply')]_vars
    /\ [](DOMAIN metadata = Instances => RemoveIdempotent(metadata))

(***************************************************************************)
(* Recursion tracking of show_properties.                                  *)
(***************************************************************************)
\* the parts of the output out that stand for the object o, in output order
PartsOf(out, o) == {i \in 1..Len(out) : out[i].obj = Some(o)}

\* the references held by the objects of the graph, in all
RECURSIVE References(_, _)
References(h, os) ==
    IF os = {} THEN 0
    ELSE LET o == CHOOSE x \in os : TRUE
         IN  Len(h[o].items) + (IF InstanceOf(h[o], {"tuple"}) THEN Len(h[o].elements) ELSE 0)
                 + References(h, os \ {o})

(***************************************************************************)
(* C30.  In one show_properties call every object that is no simple value  *)
(* is expanded at most once: its first occurrence, that of the top-level   *)
(* object too, is registered before its members are formatted, and every   *)
(* later occurrence is shown as '[ previously output ]'; so the call       *)
(* returns for every finite object graph, cyclic or not, whatever the      *)
(* depth argument is, with at most one part per reference of the graph     *)
(* (a depth of None is refused with TypeError before anything is           *)
(* formatted).                                                             *)
(***************************************************************************)
C30_ShowExpandsOnce ==
    reply # None =>
        LET out == IF reply.result.ok THEN reply.result.val ELSE <<>>
        IN  /\ reply.result.ok <=> reply.depth # NoneArg
            /\ \A i, j \in 1..Len(out) :
                  (i < j /\ out[i].obj # None /\ out[i].obj = out[j].obj) =>
                      out[j].kind = "previous"
            /\ \A i \in 1..Len(out) :
                  out[i].kind = "previous" =>
                      \E k \in 1..(i - 1) :
                          /\ out[k].obj = out[i].obj
                          /\ out[k].kind \in ExpandedKinds \cup {"elided"}
            /\ \A o \in DOMAIN heap :
                  Cardinality({i \in PartsOf(out, o) : out[i].kind \in ExpandedKinds}) <= 1
            /\ Len(out) <= 1 + References(heap, DOMAIN heap)

====
